---- MODULE Spec2Model ----
(***************************************************************************)
(* SAM-Batcher backend: the project database (Images, Image_Sources,       *)
(* Mask_Layers), the sharded upload store, image ingestion and the         *)
(* per-image status state machine, modelled from                           *)
(* src/app/backend/db_manager.py, src/app/backend/project_logic.py and     *)
(* src/app/backend/server.py.                                              *)
(***************************************************************************)
EXTENDS Integers, Sequences, FiniteSets, TLC

VARIABLES
    Images,         \* rows of table Images (db_manager.py:123-139)
    Image_Sources,  \* rows of table Image_Sources (db_manager.py:98-108)
    Mask_Layers,    \* rows of table Mask_Layers (db_manager.py:142-163)
    stored_files,   \* files present under <project>/uploads/<shard>/
    clock,          \* datetime.utcnow() / uuid4 freshness, as a counter
    everSkip,       \* history: image hashes whose status was ever 'skip'
    lastOp,         \* history: the last handler call and what it returned
    Project_Info,   \* per project database file: its Project_Info rows
    threads         \* request handlers in flight: position and local variables

vars ==
    <<Images, Image_Sources, Mask_Layers, stored_files, clock, everSkip, lastOp,
      Project_Info, threads>>

None == "None"      \* Python None / SQL NULL

(* ------------------------------ bounds --------------------------------- *)
MaxBatch == 2       \* files per upload request / per walked folder
MaxClock == 2       \* ingestion requests per behaviour
MaxMasks == 2       \* entries of final_masks per commit request
MaxLayerUpdates == 1 \* entries of state["layers"] per state update

(* --------------------------- program constants ------------------------- *)
SHARD_PREFIX_LENGTH == 2

Statuses ==
    {"unprocessed", "in_progress", "ready_for_review", "approved", "rejected", "skip"}

valid_extensions == {".png", ".jpg", ".jpeg", ".bmp", ".tiff", ".webp"}

(* ------------------------------ input sets ----------------------------- *)
\* File contents.  "Bx" is a byte string PIL cannot open as an image.
Bytes == {"B1", "B2", "Bx"}

\* Files a client uploads / a walked folder holds: a name and its contents.
\* The same contents appear under two names and two extensions; "n.txt" is
\* an image whose extension the folder walk does not accept.
Files ==
    { [filename |-> "a.jpg", bytes |-> "B1"],
      [filename |-> "c.PNG", bytes |-> "B1"],
      [filename |-> "n.txt", bytes |-> "B2"] }

\* Layer ids of rows a loaded project database already holds.
LayerIds == {"L1", "L2"}

\* uuid.uuid4().hex values drawn for new layer ids.
Uuids == {"u1"}

(* --------------------------- pure helpers ------------------------------ *)
\* hashlib md5 hexdigest, as an injective table over the modelled contents;
\* a digest is a sequence of hex characters.
calculate_file_hash(b) ==
    CASE b = "B1" -> <<"a", "1", "7">>
      [] b = "B2" -> <<"a", "1", "e">>
      [] b = "Bx" -> <<"4", "f", "0">>

\* Image hashes the per-image handlers are given: the hash of an image that
\* can be in the pool and a hash no stored image has.
RequestHashes == { calculate_file_hash(b) : b \in {"B1", "Bx"} }

\* PIL Image.open raises on contents that are not an image.
CanOpenImage(b) == b \in {"B1", "B2"}

\* PIL Image.open(...).size as <<width, height>>
get_image_dimensions_from_stream(b) ==
    CASE b = "B1" -> <<800, 600>>
      [] b = "B2" -> <<640, 480>>

\* os.path.splitext(filename)[1]
splitext(filename) ==
    CASE filename = "a.jpg" -> ".jpg"
      [] filename = "c.PNG" -> ".PNG"
      [] filename = "n.txt" -> ".txt"

\* str.lower() on an extension
Lower(ext) ==
    CASE ext = ".PNG" -> ".png"
      [] ext = ".JPG" -> ".jpg"
      [] OTHER -> ext

\* str.lstrip('.') on an extension
LStripDot(ext) ==
    CASE ext = ".png" -> "png"
      [] ext = ".jpg" -> "jpg"
      [] ext = ".txt" -> "txt"
      [] OTHER -> ext

\* filename.lower().endswith(valid_extensions)
HasValidExtension(filename) == Lower(splitext(filename)) \in valid_extensions

\* <upload_dir>/<hash[:SHARD_PREFIX_LENGTH]>/<hash>.<ext>
get_sharded_image_path(image_hash, original_extension) ==
    [ shard_dir |-> SubSeq(image_hash, 1, SHARD_PREFIX_LENGTH),
      stem      |-> image_hash,
      ext       |-> LStripDot(Lower(original_extension)) ]

\* os.path.relpath(os.path.join(root, filename), folder_path) for a file
\* directly under the folder root
relpath(filename) ==
    [ shard_dir |-> <<>>, stem |-> <<filename>>, ext |-> "" ]

HashesOf(I) == { r.image_hash : r \in I }
RowsOf(I, h) == { r \in I : r.image_hash = h }
get_image_by_hash(I, h) == CHOOSE r \in RowsOf(I, h) : TRUE

SourceIds(S) == { s.source_id : s \in S }

(* ---------------------------- Project_Info ------------------------------ *)
\* The project whose tables the model holds (the server's active project).
ActiveProject == "p1"

\* A database file sqlite3.connect created for an id no project has: no
\* tables, so every statement on it raises sqlite3.OperationalError.
EmptyDb ==
    [ tables |-> FALSE, project_name |-> None, last_modified_at_content |-> 0 ]

\* What init_project_db leaves in Project_Info.
ProjectRow(project_name, now) ==
    [ tables |-> TRUE, project_name |-> project_name,
      last_modified_at_content |-> now ]

\* get_db_connection: connecting creates the database file if it is missing.
get_db_connection(P, project_id) ==
    IF project_id \in DOMAIN P THEN P ELSE P @@ (project_id :> EmptyDb)

\* A store call that opens the database and leaves last_modified_at_content
\* as it was.
update_last_modified_Skipped(P, project_id, now) ==
    get_db_connection(P, project_id)

\* db_manager.update_last_modified: the UPDATE of last_modified_at_content;
\* a sqlite3.Error (no such table) is caught and printed.
update_last_modified(P, project_id, now) ==
    LET P1 == get_db_connection(P, project_id)
    IN  IF P1[project_id].tables
        THEN [ P1 EXCEPT ![project_id].last_modified_at_content = now ]
        ELSE P1

\* No request handler is in flight.
NoThreads == << >>

(* ------------------------------ Images --------------------------------- *)
\* COALESCE(a, b)
Coalesce(a, b) == IF a # None THEN a ELSE b

\* UpsertRow with the COALESCE arguments swapped: a stored value wins.
UpsertRow_KeepStored(r, excluded) ==
    [ r EXCEPT
        !.original_filename = Coalesce(r.original_filename, excluded.original_filename),
        !.source_id_ref     = Coalesce(r.source_id_ref, excluded.source_id_ref) ]

\* The DO UPDATE SET clause of the upsert, applied to the conflicting row.
UpsertRow(r, excluded) ==
    [ r EXCEPT
        !.original_filename = Coalesce(excluded.original_filename, r.original_filename),
        !.source_id_ref     = Coalesce(excluded.source_id_ref, r.source_id_ref) ]

\* add_image_to_pool as a plain INSERT into a table without the primary key.
add_image_to_pool_PlainInsert(I, S, image_hash, original_filename, source_id_ref, path_in_source, width, height, now) ==
    [ Images |-> I \cup { [ image_hash        |-> image_hash,
                            original_filename |-> original_filename,
                            source_id_ref     |-> source_id_ref,
                            path_in_source    |-> path_in_source,
                            width             |-> width,
                            height            |-> height,
                            status            |-> "unprocessed",
                            added_to_pool_at  |-> now ] },
      is_new |-> TRUE ]

\* INSERT ... ON CONFLICT(image_hash) DO UPDATE; returns the table and is_new.
\* cursor.rowcount is the number of rows the statement inserted or updated.
add_image_to_pool(I, S, image_hash, original_filename, source_id_ref, path_in_source, width, height, now) ==
    LET excluded ==
            [ image_hash        |-> image_hash,
              original_filename |-> original_filename,
              source_id_ref     |-> source_id_ref,
              path_in_source    |-> path_in_source,
              width             |-> width,
              height            |-> height,
              status            |-> "unprocessed",
              added_to_pool_at  |-> now ]
        conflict == RowsOf(I, image_hash)
        fk_ok    == source_id_ref = None \/ source_id_ref \in SourceIds(S)
        I2       == IF conflict = {}
                    THEN I \cup {excluded}
                    ELSE (I \ conflict) \cup { UpsertRow(r, excluded) : r \in conflict }
        rowcount == IF conflict = {} THEN 1 ELSE Cardinality(conflict)
    IN  IF ~fk_ok
        THEN [ Images |-> I, is_new |-> FALSE ]          \* sqlite3.IntegrityError
        ELSE [ Images |-> I2, is_new |-> rowcount > 0 ]

\* UPDATE Images SET status = ? WHERE image_hash = ?
update_image_status(I, h, status) ==
    { IF r.image_hash = h THEN [r EXCEPT !.status = status] ELSE r : r \in I }

(* --------------------------- history record ---------------------------- *)
\* What the last handler was given, what it found and what it returned.
\* outcome is "returned" or "raised"; has_mask says the request carried at
\* least one mask to save; the pre_ fields are read before the handler's
\* first statement.
NoOp ==
    [ op |-> "init", image_hash |-> <<>>, layer_id |-> None, written |-> None,
      outcome |-> "returned", success |-> TRUE, image_status |-> None,
      source_id |-> None, results |-> <<>>,
      images_added |-> 0, images_skipped_duplicates |-> 0, errors |-> 0,
      final_layer_ids |-> <<>>, has_mask |-> FALSE,
      pre_status |-> None, pre_layer_count |-> 0,
      owner |-> <<>>, owner_pre_status |-> None, owner_pre_layer_count |-> 0 ]

OpRecord(op) == [ NoOp EXCEPT !.op = op ]

\* everSkip after the table I replaces Images
SkipSeen(I) == everSkip \cup { r.image_hash : r \in { q \in I : q.status = "skip" } }

(* ------------------------------ ingestion ------------------------------ *)
BatchesOf(S) == UNION { [1..n -> S] : n \in 1..MaxBatch }

\* History of one add_image_to_pool call: whether the hash was in the pool
\* when it was made, the row it found and the value it returned.
FileResult(I, image_hash, filename, is_new) ==
    [ image_hash |-> image_hash,
      filename   |-> filename,
      in_pool    |-> image_hash \in HashesOf(I),
      prev_rows  |-> RowsOf(I, image_hash),
      is_new     |-> is_new ]

\* The for-loop of add_image_source_upload over files[i], filenames[i].
\* st = [Images, stored_files, added, skipped, errors, results]
RECURSIVE upload_loop(_, _, _, _, _, _)
upload_loop(i, batch, source_id, S, now, st) ==
    IF i > Len(batch) THEN st
    ELSE
      LET original_filename == batch[i].filename
          image_hash == calculate_file_hash(batch[i].bytes)
      IN  IF ~CanOpenImage(batch[i].bytes)
          THEN \* get_image_dimensions_from_stream raises: except branch
               upload_loop(i + 1, batch, source_id, S, now,
                   [ st EXCEPT !.errors = @ + 1 ])
          ELSE
            LET dims == get_image_dimensions_from_stream(batch[i].bytes)
                original_extension == splitext(original_filename)
                saved_path_in_source ==
                    get_sharded_image_path(image_hash, original_extension)
                r == add_image_to_pool(st.Images, S, image_hash, original_filename,
                                       source_id, saved_path_in_source,
                                       dims[1], dims[2], now)
            IN  upload_loop(i + 1, batch, source_id, S, now,
                   [ Images       |-> r.Images,
                     stored_files |-> st.stored_files \cup {saved_path_in_source},
                     added        |-> st.added + (IF r.is_new THEN 1 ELSE 0),
                     skipped      |-> st.skipped + (IF r.is_new THEN 0 ELSE 1),
                     errors       |-> st.errors,
                     results      |-> Append(st.results,
                         FileResult(st.Images, image_hash, original_filename,
                                    r.is_new)) ])

\* The os.walk loop of add_image_source_folder.
RECURSIVE folder_loop(_, _, _, _, _, _)
folder_loop(i, listing, source_id, S, now, st) ==
    IF i > Len(listing) THEN st
    ELSE
      LET filename == listing[i].filename
          image_hash == calculate_file_hash(listing[i].bytes)
      IN  IF ~HasValidExtension(filename)
          THEN folder_loop(i + 1, listing, source_id, S, now, st)
          ELSE IF ~CanOpenImage(listing[i].bytes)
          THEN folder_loop(i + 1, listing, source_id, S, now,
                   [ st EXCEPT !.errors = @ + 1 ])
          ELSE
            LET dims == get_image_dimensions_from_stream(listing[i].bytes)
                path_in_source == relpath(filename)
                r == add_image_to_pool(st.Images, S, image_hash, filename,
                                       source_id, path_in_source,
                                       dims[1], dims[2], now)
            IN  folder_loop(i + 1, listing, source_id, S, now,
                   [ st EXCEPT
                       !.Images  = r.Images,
                       !.added   = @ + (IF r.is_new THEN 1 ELSE 0),
                       !.skipped = @ + (IF r.is_new THEN 0 ELSE 1),
                       !.results = Append(@,
                         FileResult(st.Images, image_hash, filename, r.is_new)) ])

LoopStart ==
    [ Images |-> Images, stored_files |-> stored_files,
      added |-> 0, skipped |-> 0, errors |-> 0, results |-> <<>> ]

\* POST /sources/add_upload -> project_logic.add_image_source_upload
add_image_source_upload ==
    \E batch \in BatchesOf(Files) :
      /\ clock < MaxClock
      /\ LET source_id == "upload_" \o ToString(clock)
             S  == Image_Sources \cup { [source_id |-> source_id, type |-> "upload"] }
             st == upload_loop(1, batch, source_id, S, clock, LoopStart)
         IN  /\ Image_Sources' = S
             /\ Images' = st.Images
             /\ stored_files' = st.stored_files
             /\ everSkip' = SkipSeen(st.Images)
             /\ lastOp' = [ OpRecord("add_image_source_upload") EXCEPT
                              !.source_id = source_id,
                              !.results = st.results,
                              !.images_added = st.added,
                              !.images_skipped_duplicates = st.skipped,
                              !.errors = st.errors ]
      /\ clock' = clock + 1
      /\ Project_Info' = update_last_modified(Project_Info, ActiveProject, clock)
      /\ UNCHANGED <<Mask_Layers, threads>>

\* POST /sources/add_folder -> project_logic.add_image_source_folder
add_image_source_folder ==
    \E is_dir \in BOOLEAN, listing \in BatchesOf(Files) :
      /\ clock < MaxClock
      /\ IF ~is_dir
         THEN /\ lastOp' = [ OpRecord("add_image_source_folder") EXCEPT
                               !.success = FALSE ]
              /\ UNCHANGED <<Images, Image_Sources, Mask_Layers, stored_files,
                             clock, everSkip, Project_Info, threads>>
         ELSE
           LET source_id == "folder_" \o ToString(clock)
               S  == Image_Sources \cup { [source_id |-> source_id, type |-> "folder"] }
               st == folder_loop(1, listing, source_id, S, clock, LoopStart)
           IN  /\ Image_Sources' = S
               /\ Images' = st.Images
               /\ everSkip' = SkipSeen(st.Images)
               /\ lastOp' = [ OpRecord("add_image_source_folder") EXCEPT
                                !.source_id = source_id,
                                !.results = st.results,
                                !.images_added = st.added,
                                !.images_skipped_duplicates = st.skipped,
                                !.errors = st.errors ]
               /\ clock' = clock + 1
               /\ Project_Info' =
                    update_last_modified(Project_Info, ActiveProject, clock)
               /\ UNCHANGED <<Mask_Layers, stored_files, threads>>

\* PUT /images/{image_hash}/status -> db_manager.update_image_status
api_update_image_status ==
    \E image_hash \in RequestHashes, status \in Statuses :
      /\ Images' = update_image_status(Images, image_hash, status)
      /\ everSkip' = SkipSeen(Images')
      /\ lastOp' = [ OpRecord("update_image_status") EXCEPT
                       !.image_hash = image_hash, !.written = status ]
      /\ Project_Info' = update_last_modified(Project_Info, ActiveProject, clock)
      /\ UNCHANGED <<Image_Sources, Mask_Layers, stored_files, clock, threads>>

(* ----------------------------- Mask_Layers ------------------------------ *)
LayerRowsOf(L, layer_id) == { l \in L : l.layer_id = layer_id }

\* SELECT COUNT(*) FROM Mask_Layers WHERE image_hash_ref = ?
count_mask_layers_for_image(L, image_hash) ==
    Cardinality({ l \in L : l.image_hash_ref = image_hash })

\* The column list of save_mask_layer's INSERT and the number of "?" in its
\* VALUES clause.
SAVE_MASK_LAYER_COLUMNS ==
    << "layer_id", "image_hash_ref", "status", "mask_data_rle", "name",
       "class_label", "display_color", "source_metadata", "created_at",
       "updated_at", "layer_type", "model_details", "prompt_details",
       "metadata", "is_selected_for_final" >>

SAVE_MASK_LAYER_PLACEHOLDERS == 14

\* db_manager.save_mask_layer.  sqlite3 refuses to prepare an INSERT whose
\* VALUES clause has a different number of terms than its column list
\* ("N values for M columns", sqlite3.OperationalError); a prepared insert
\* fails on a duplicate layer_id or a dangling image_hash_ref.
save_mask_layer(L, I, layer_id, image_hash_ref, status) ==
    IF SAVE_MASK_LAYER_PLACEHOLDERS # Len(SAVE_MASK_LAYER_COLUMNS)
    THEN [ Mask_Layers |-> L, raised |-> TRUE ]
    ELSE IF LayerRowsOf(L, layer_id) # {} \/ image_hash_ref \notin HashesOf(I)
    THEN [ Mask_Layers |-> L, raised |-> TRUE ]
    ELSE [ Mask_Layers |->
             L \cup { [ layer_id |-> layer_id, image_hash_ref |-> image_hash_ref,
                        status |-> status ] },
           raised |-> FALSE ]

\* DELETE FROM Mask_Layers WHERE layer_id = ?
delete_mask_layer(L, layer_id) == L \ LayerRowsOf(L, layer_id)

\* UPDATE Mask_Layers SET layer_type = ?, status = ? WHERE layer_id = ?
update_mask_layer_status(L, layer_id, status) ==
    { IF l.layer_id = layer_id THEN [l EXCEPT !.status = status] ELSE l : l \in L }

\* Parameters db_manager.update_mask_layer_basic declares, and the keyword
\* arguments project_logic.update_image_state passes to it.
UPDATE_MASK_LAYER_BASIC_PARAMS ==
    {"project_id", "layer_id", "name", "class_label", "display_color"}

UPDATE_IMAGE_STATE_KEYWORDS == {"name", "class_label", "display_color", "visible"}

\* A call with a keyword the callee does not declare raises TypeError.
CallRaisesTypeError(keywords, params) == ~(keywords \subseteq params)

(* ------------------------- status state machine ------------------------ *)
\* sync_image_status_with_layers without the early return on 'skip'.
sync_image_status_with_layers_NoSkipGuard(I, L, image_hash) ==
    IF RowsOf(I, image_hash) = {}
    THEN [ Images |-> I, status |-> "unprocessed" ]
    ELSE
      LET current == get_image_by_hash(I, image_hash).status
          layer_count == count_mask_layers_for_image(L, image_hash)
      IN  IF layer_count = 0
          THEN IF current # "unprocessed"
               THEN [ Images |-> update_image_status(I, image_hash, "unprocessed"),
                      status |-> "unprocessed" ]
               ELSE [ Images |-> I, status |-> current ]
          ELSE IF current = "unprocessed"
               THEN [ Images |-> update_image_status(I, image_hash, "in_progress"),
                      status |-> "in_progress" ]
               ELSE [ Images |-> I, status |-> current ]

\* sync_image_status_with_layers whose branch for an image with layers
\* fires on every status but 'in_progress'.
sync_image_status_with_layers_DemotesReviewed(I, L, image_hash) ==
    IF RowsOf(I, image_hash) = {}
    THEN [ Images |-> I, status |-> "unprocessed" ]
    ELSE
      LET current == get_image_by_hash(I, image_hash).status
          layer_count == count_mask_layers_for_image(L, image_hash)
      IN  IF current = "skip"
          THEN [ Images |-> I, status |-> current ]
          ELSE IF layer_count = 0
          THEN IF current # "unprocessed"
               THEN [ Images |-> update_image_status(I, image_hash, "unprocessed"),
                      status |-> "unprocessed" ]
               ELSE [ Images |-> I, status |-> current ]
          ELSE IF current # "in_progress"
               THEN [ Images |-> update_image_status(I, image_hash, "in_progress"),
                      status |-> "in_progress" ]
               ELSE [ Images |-> I, status |-> current ]

\* sync_image_status_with_layers that returns the status it read, without
\* the assignment to current after a write.
sync_image_status_with_layers_StaleReturn(I, L, image_hash) ==
    IF RowsOf(I, image_hash) = {}
    THEN [ Images |-> I, status |-> "unprocessed" ]
    ELSE
      LET current == get_image_by_hash(I, image_hash).status
          layer_count == count_mask_layers_for_image(L, image_hash)
      IN  IF current = "skip"
          THEN [ Images |-> I, status |-> current ]
          ELSE IF layer_count = 0
          THEN IF current # "unprocessed"
               THEN [ Images |-> update_image_status(I, image_hash, "unprocessed"),
                      status |-> current ]
               ELSE [ Images |-> I, status |-> current ]
          ELSE IF current = "unprocessed"
               THEN [ Images |-> update_image_status(I, image_hash, "in_progress"),
                      status |-> current ]
               ELSE [ Images |-> I, status |-> current ]

\* project_logic.sync_image_status_with_layers; returns the table and the
\* status it returns.
sync_image_status_with_layers(I, L, image_hash) ==
    IF RowsOf(I, image_hash) = {}
    THEN [ Images |-> I, status |-> "unprocessed" ]
    ELSE
      LET current == get_image_by_hash(I, image_hash).status
          layer_count == count_mask_layers_for_image(L, image_hash)
      IN  IF current = "skip"
          THEN [ Images |-> I, status |-> current ]
          ELSE IF layer_count = 0
          THEN IF current # "unprocessed"
               THEN [ Images |-> update_image_status(I, image_hash, "unprocessed"),
                      status |-> "unprocessed" ]
               ELSE [ Images |-> I, status |-> current ]
          ELSE IF current = "unprocessed"
               THEN [ Images |-> update_image_status(I, image_hash, "in_progress"),
                      status |-> "in_progress" ]
               ELSE [ Images |-> I, status |-> current ]

StatusOf(I, h) == IF RowsOf(I, h) = {} THEN None ELSE get_image_by_hash(I, h).status

OwnerOf(L, layer_id) ==
    IF LayerRowsOf(L, layer_id) = {} THEN <<>>
    ELSE (CHOOSE l \in LayerRowsOf(L, layer_id) : TRUE).image_hash_ref

\* The history record of a handler given image_hash (and layer_id).
LayerOpRecord(op, image_hash, layer_id) ==
    [ OpRecord(op) EXCEPT
        !.image_hash = image_hash,
        !.layer_id = layer_id,
        !.pre_status = StatusOf(Images, image_hash),
        !.pre_layer_count = count_mask_layers_for_image(Mask_Layers, image_hash),
        !.owner = OwnerOf(Mask_Layers, layer_id),
        !.owner_pre_status = StatusOf(Images, OwnerOf(Mask_Layers, layer_id)),
        !.owner_pre_layer_count =
            count_mask_layers_for_image(Mask_Layers, OwnerOf(Mask_Layers, layer_id)) ]

(* ------------------------------ annotation ----------------------------- *)
\* What the segmentation engine does for one automask request.
EngineOutcomes ==
    {"unavailable", "no_model", "set_image_failed", "generate_failed", "masks"}

\* POST /images/{image_hash}/automask -> project_logic.process_automask_request
process_automask_request ==
    \E image_hash \in RequestHashes, engine \in EngineOutcomes,
       already_active \in BOOLEAN, u \in Uuids :
      LET rec == LayerOpRecord("process_automask_request", image_hash, None)
          activation_fails ==
              /\ ~already_active
              /\ (RowsOf(Images, image_hash) = {} \/ engine = "set_image_failed")
          layer_id == "automask_" \o u
          saved == save_mask_layer(Mask_Layers, Images, layer_id, image_hash,
                                   "prediction")
          synced == sync_image_status_with_layers(Images, saved.Mask_Layers,
                                                  image_hash)
      IN  IF engine \in {"unavailable", "no_model"} \/ activation_fails
             \/ engine # "masks"
          THEN /\ lastOp' = [ rec EXCEPT !.success = FALSE ]
               /\ UNCHANGED <<Images, Image_Sources, Mask_Layers, stored_files,
                              clock, everSkip, Project_Info, threads>>
          ELSE IF saved.raised
          THEN /\ lastOp' = [ rec EXCEPT !.outcome = "raised", !.success = FALSE,
                                         !.has_mask = TRUE ]
               /\ UNCHANGED <<Images, Image_Sources, Mask_Layers, stored_files,
                              clock, everSkip, Project_Info, threads>>
          ELSE /\ Mask_Layers' = saved.Mask_Layers
               /\ Images' = synced.Images
               /\ lastOp' = [ rec EXCEPT !.layer_id = layer_id,
                                         !.has_mask = TRUE,
                                         !.image_status = synced.status ]
               /\ Project_Info' =
                    update_last_modified(Project_Info, ActiveProject, clock)
               /\ UNCHANGED <<Image_Sources, stored_files, clock, everSkip, threads>>

\* The for-loop of commit_final_masks.  masks[i] is TRUE when entry i carries
\* a non-empty "segmentation".  st = [Mask_Layers, committed, raised]
RECURSIVE commit_loop(_, _, _, _, _, _)
commit_loop(i, masks, image_hash, layer_id_base, I, st) ==
    IF i > Len(masks) THEN st
    ELSE IF ~masks[i]
    THEN commit_loop(i + 1, masks, image_hash, layer_id_base, I, st)
    ELSE
      LET current_layer_id == layer_id_base \o "_" \o ToString(i - 1)
          saved == save_mask_layer(st.Mask_Layers, I, current_layer_id,
                                   image_hash, "edited")
      IN  IF saved.raised
          THEN [ st EXCEPT !.raised = TRUE ]
          ELSE commit_loop(i + 1, masks, image_hash, layer_id_base, I,
                   [ Mask_Layers |-> saved.Mask_Layers,
                     committed   |-> Append(st.committed, current_layer_id),
                     raised      |-> FALSE ])

MaskLists == UNION { [1..n -> BOOLEAN] : n \in 1..MaxMasks }

\* POST /images/{image_hash}/commit_masks -> project_logic.commit_final_masks
commit_final_masks ==
    \E image_hash \in RequestHashes, final_masks_data \in MaskLists,
       notes \in BOOLEAN, u \in Uuids :
      LET rec == [ LayerOpRecord("commit_final_masks", image_hash, None) EXCEPT
                     !.has_mask = (\E i \in DOMAIN final_masks_data : final_masks_data[i]) ]
          st  == commit_loop(1, final_masks_data, image_hash,
                             "final_edited_" \o u, Images,
                             [ Mask_Layers |-> Mask_Layers, committed |-> <<>>,
                               raised |-> FALSE ])
          \* img_info.get(...) on None raises AttributeError
          notes_raise == notes /\ RowsOf(Images, image_hash) = {}
          synced == sync_image_status_with_layers(Images, st.Mask_Layers, image_hash)
      IN  /\ Mask_Layers' = st.Mask_Layers
          /\ IF st.raised \/ notes_raise
             THEN /\ Images' = Images
                  /\ lastOp' = [ rec EXCEPT !.outcome = "raised", !.success = FALSE,
                                            !.final_layer_ids = st.committed ]
                  /\ Project_Info' =
                       IF st.committed # <<>>
                       THEN update_last_modified(Project_Info, ActiveProject, clock)
                       ELSE Project_Info
             ELSE /\ Images' = synced.Images
                  /\ lastOp' = [ rec EXCEPT !.final_layer_ids = st.committed,
                                            !.image_status = synced.status ]
                  /\ Project_Info' =
                       IF st.committed # <<>> \/ synced.Images # Images
                       THEN update_last_modified(Project_Info, ActiveProject, clock)
                       ELSE Project_Info
          /\ UNCHANGED <<Image_Sources, stored_files, clock, everSkip, threads>>

\* DELETE /images/{image_hash}/layers/{layer_id}
\*   -> project_logic.delete_mask_layer_and_update_status
delete_mask_layer_and_update_status ==
    \E image_hash \in RequestHashes, layer_id \in LayerIds :
      LET L2 == delete_mask_layer(Mask_Layers, layer_id)
          synced == sync_image_status_with_layers(Images, L2, image_hash)
      IN  /\ Mask_Layers' = L2
          /\ Images' = synced.Images
          /\ lastOp' = [ LayerOpRecord("delete_mask_layer_and_update_status",
                                       image_hash, layer_id) EXCEPT
                           !.image_status = synced.status ]
          /\ Project_Info' = update_last_modified(Project_Info, ActiveProject, clock)
          /\ UNCHANGED <<Image_Sources, stored_files, clock, everSkip, threads>>

\* One entry of state["layers"]: the layer id, whether any of name,
\* classLabel, displayColor, visible is given, and the "status" key (an
\* entry that gives attributes is drawn without a status: its attribute
\* update runs first).
LayerUpdates ==
    [ layerId : LayerIds, attributes : {TRUE}, status : {None} ]
      \cup [ layerId : LayerIds, attributes : {FALSE}, status : {None, "edited"} ]

LayerUpdateLists == UNION { [1..n -> LayerUpdates] : n \in 0..MaxLayerUpdates }

\* The for-loop of update_image_state.  st = [Mask_Layers, raised,
\* status_updates], the last the number of update_mask_layer_status calls.
RECURSIVE update_layers_loop(_, _, _)
update_layers_loop(i, layers, st) ==
    IF i > Len(layers) THEN st
    ELSE IF layers[i].attributes
            /\ CallRaisesTypeError(UPDATE_IMAGE_STATE_KEYWORDS,
                                   UPDATE_MASK_LAYER_BASIC_PARAMS)
    THEN [ st EXCEPT !.raised = TRUE ]
    ELSE update_layers_loop(i + 1, layers,
             [ st EXCEPT
                 !.Mask_Layers =
                     IF layers[i].status # None
                     THEN update_mask_layer_status(@, layers[i].layerId, layers[i].status)
                     ELSE @,
                 !.status_updates =
                     IF layers[i].status # None THEN @ + 1 ELSE @ ])

\* PUT /image/{image_hash}/state -> project_logic.update_image_state
update_image_state ==
    \E image_hash \in RequestHashes, status \in Statuses \cup {None},
       layers \in LayerUpdateLists :
      LET I1 == IF status # None
                THEN update_image_status(Images, image_hash, status)
                ELSE Images
          st == update_layers_loop(1, layers,
                    [ Mask_Layers |-> Mask_Layers, raised |-> FALSE,
                      status_updates |-> 0 ])
          synced == sync_image_status_with_layers(I1, st.Mask_Layers, image_hash)
          rec == [ LayerOpRecord("update_image_state", image_hash, None) EXCEPT
                     !.written = status ]
      IN  /\ Mask_Layers' = st.Mask_Layers
          /\ IF st.raised
             THEN /\ Images' = I1
                  /\ lastOp' = [ rec EXCEPT !.outcome = "raised", !.success = FALSE ]
             ELSE /\ Images' = synced.Images
                  /\ lastOp' = [ rec EXCEPT !.image_status = synced.status ]
          /\ everSkip' = SkipSeen(I1)
          /\ Project_Info' =
               IF \/ status # None
                  \/ st.status_updates > 0
                  \/ (~st.raised /\ synced.Images # I1)
               THEN update_last_modified(Project_Info, ActiveProject, clock)
               ELSE Project_Info
          /\ UNCHANGED <<Image_Sources, stored_files, clock, threads>>

(* ------------------------- specifications ------------------------------ *)
\* The state init_project_db leaves: every table empty, no uploads.
InitFresh ==
    /\ Images = {}
    /\ Image_Sources = {}
    /\ Mask_Layers = {}
    /\ stored_files = {}
    /\ clock = 0
    /\ everSkip = {}
    /\ lastOp = NoOp
    /\ Project_Info = (ActiveProject :> ProjectRow("P one", 0))
    /\ threads = NoThreads

\* A row of Images as an earlier upload of contents b under filename left it.
LoadedRow(b, filename, source_id_ref, status) ==
    [ image_hash        |-> calculate_file_hash(b),
      original_filename |-> filename,
      source_id_ref     |-> source_id_ref,
      path_in_source    |-> get_sharded_image_path(calculate_file_hash(b), ".jpg"),
      width             |-> get_image_dimensions_from_stream(b)[1],
      height            |-> get_image_dimensions_from_stream(b)[2],
      status            |-> status,
      added_to_pool_at  |-> 0 ]

\* A project database received by POST /api/project/upload_db
\* (server.py:181-229) that already holds one reviewed image; its filename
\* and source reference are nullable columns.
InitLoadedPool ==
    \E filename \in {None, "a.jpg"}, source_id_ref \in {None, "upload_0"} :
      /\ Images = { LoadedRow("B1", filename, source_id_ref, "approved") }
      /\ Image_Sources = { [source_id |-> "upload_0", type |-> "upload"] }
      /\ Mask_Layers = {}
      /\ stored_files = { get_sharded_image_path(calculate_file_hash("B1"), ".jpg") }
      /\ clock = 1
      /\ everSkip = {}
      /\ lastOp = NoOp
      /\ Project_Info = (ActiveProject :> ProjectRow("P one", 0))
      /\ threads = NoThreads

InitIngest == InitFresh \/ InitLoadedPool

NextIngest ==
    \/ add_image_source_upload
    \/ add_image_source_folder

SpecIngest == InitIngest /\ [][NextIngest]_vars

\* A project database received by POST /api/project/upload_db
\* (server.py:181-229) that holds one uploaded image and up to two mask
\* layers of it, its status as the state machine leaves it.
InitLoadedLayers ==
    \E present \in SUBSET LayerIds :
      LET L == { [ layer_id |-> id, image_hash_ref |-> calculate_file_hash("B1"),
                   status |-> "prediction" ] : id \in present }
      IN  /\ Mask_Layers = L
          /\ Images = { LoadedRow("B1", "a.jpg", "upload_0",
                                  IF present = {} THEN "unprocessed" ELSE "in_progress") }
          /\ Image_Sources = { [source_id |-> "upload_0", type |-> "upload"] }
          /\ stored_files = { get_sharded_image_path(calculate_file_hash("B1"), ".jpg") }
          /\ clock = 1
          /\ everSkip = {}
          /\ lastOp = NoOp
          /\ Project_Info = (ActiveProject :> ProjectRow("P one", 0))
          /\ threads = NoThreads

NextLayers ==
    \/ api_update_image_status
    \/ update_image_state
    \/ process_automask_request
    \/ commit_final_masks
    \/ delete_mask_layer_and_update_status

SpecLayers == InitLoadedLayers /\ [][NextLayers]_vars

(* ------------------------------ RLE codec ------------------------------ *)
MaxDim == 2         \* rows and columns of a grid, declared height and width
MaxCounts == 3      \* runs in a decoded counts list
MaxRun == 2         \* length of one run in a decoded counts list

\* The rectangular binary grids: h rows of w cells, h and w up to MaxDim.
\* A grid is the sequence of its rows; [] is <<>> and [[]] is << <<>> >>.
Grids ==
    UNION { [1..h -> [1..w -> {0, 1}]] : h \in 0..MaxDim, w \in 0..MaxDim }

\* The RLE dictionaries handed to the decoder: non-negative counts, any
\* declared size, whether or not the counts add up to it.
RleInputs ==
    [ counts : UNION { [1..n -> 0..MaxRun] : n \in 0..MaxCounts },
      size   : (0..MaxDim) \X (0..MaxDim) ]

\* for row in mask: for val in row  -- the cells in row-major order
RECURSIVE Flatten(_)
Flatten(mask) ==
    IF mask = <<>> THEN <<>> ELSE Head(mask) \o Flatten(Tail(mask))

\* The body of the encoder's double loop over the cells flat[i..].
RECURSIVE encode_loop(_, _, _)
encode_loop(i, flat, st) ==
    IF i > Len(flat) THEN st
    ELSE LET v == IF flat[i] # 0 THEN 1 ELSE 0
         IN  IF v = st.last_val
             THEN encode_loop(i + 1, flat, [st EXCEPT !.run_len = @ + 1])
             ELSE encode_loop(i + 1, flat,
                    [ counts   |-> Append(st.counts, st.run_len),
                      last_val |-> v,
                      run_len  |-> 1 ])

binary_mask_to_rle(mask) ==
    IF mask = <<>> \/ mask[1] = <<>>
    THEN [ counts |-> <<>>, size |-> <<0, 0>> ]
    ELSE LET st == encode_loop(1, Flatten(mask),
                     [ counts |-> <<>>, last_val |-> 0, run_len |-> 0 ])
         IN  [ counts |-> Append(st.counts, st.run_len),
               size   |-> <<Len(mask), Len(mask[1])>> ]

\* [val] * c, and [0] * n: the empty list when n <= 0
Repeat(val, n) == [ k \in 1..n |-> val ]

\* for c in counts: flat.extend([val] * c); val = 1 - val
RECURSIVE decode_loop(_, _, _, _)
decode_loop(i, counts, val, flat) ==
    IF i > Len(counts) THEN flat
    ELSE decode_loop(i + 1, counts, 1 - val, flat \o Repeat(val, counts[i]))

\* flat[a:b] for 0 <= a <= b, clipped to the list as Python clips a slice
Slice(flat, a, b) ==
    SubSeq(flat, a + 1, IF b < Len(flat) THEN b ELSE Len(flat))

\* rle_to_binary_mask with the "ensure length" line left out.
rle_to_binary_mask_NoPadding(rle) ==
    LET height == rle.size[1]
        width  == rle.size[2]
        flat   == decode_loop(1, rle.counts, 0, <<>>)
    IN  [ i \in 1..height |-> Slice(flat, (i - 1) * width, i * width) ]

rle_to_binary_mask(rle) ==
    LET height == rle.size[1]
        width  == rle.size[2]
        flat   == decode_loop(1, rle.counts, 0, <<>>)
        padded == flat \o Repeat(0, height * width - Len(flat))
    IN  [ i \in 1..height |-> Slice(padded, (i - 1) * width, i * width) ]

\* The codec call in flight at the start: a grid to encode or an RLE
\* dictionary to decode; the database is untouched by either.
InitRle ==
    /\ Images = {} /\ Image_Sources = {} /\ Mask_Layers = {}
    /\ stored_files = {} /\ clock = 0 /\ everSkip = {}
    /\ Project_Info = (ActiveProject :> ProjectRow("P one", 0))
    /\ threads = NoThreads
    /\ \/ \E mask \in Grids :
            lastOp = [ op |-> "call binary_mask_to_rle", mask |-> mask ]
       \/ \E rle \in RleInputs :
            lastOp = [ op |-> "call rle_to_binary_mask", rle |-> rle ]

\* The encoder runs on the grid it was called with.
binary_mask_to_rle_call ==
    /\ lastOp.op = "call binary_mask_to_rle"
    /\ lastOp' = [ op   |-> "binary_mask_to_rle",
                   mask |-> lastOp.mask,
                   rle  |-> binary_mask_to_rle(lastOp.mask) ]
    /\ UNCHANGED <<Images, Image_Sources, Mask_Layers, stored_files, clock, everSkip,
                   Project_Info, threads>>

\* The decoder runs on the RLE it was called with, or on the one the
\* encoder just returned (from_mask is then the grid that was encoded).
rle_to_binary_mask_call ==
    /\ \/ /\ lastOp.op = "binary_mask_to_rle"
          /\ lastOp' = [ op         |-> "rle_to_binary_mask",
                         rle        |-> lastOp.rle,
                         round_trip |-> TRUE,
                         from_mask  |-> lastOp.mask,
                         mask       |-> rle_to_binary_mask(lastOp.rle) ]
       \/ /\ lastOp.op = "call rle_to_binary_mask"
          /\ lastOp' = [ op         |-> "rle_to_binary_mask",
                         rle        |-> lastOp.rle,
                         round_trip |-> FALSE,
                         from_mask  |-> <<>>,
                         mask       |-> rle_to_binary_mask(lastOp.rle) ]
    /\ UNCHANGED <<Images, Image_Sources, Mask_Layers, stored_files, clock, everSkip,
                   Project_Info, threads>>

NextRle == binary_mask_to_rle_call \/ rle_to_binary_mask_call

SpecRle == InitRle /\ [][NextRle]_vars

(* ------------------------------- export -------------------------------- *)
\* A TEXT column value: SQL NULL, text that is not JSON, or the JSON text
\* of a list.  value holds the text's content as a list of strings.
NullText == [ kind |-> "null", value |-> <<>> ]
PlainText(text) == [ kind |-> "plain", value |-> <<text>> ]
JsonText(list) == [ kind |-> "json", value |-> list ]

\* The class_label values a stored layer carries.
ClassLabelTexts ==
    { NullText, PlainText("cat"), JsonText(<<"dog", "Zebra">>) }

\* Python's order on the label strings and on the digests (code points).
LabelOrder == <<"Zebra", "cat", "dog">>
HashOrder == << calculate_file_hash("Bx"), calculate_file_hash("B1"),
                calculate_file_hash("B2") >>

\* rowid order of the Mask_Layers rows
LayerOrder == <<"L1", "L2">>

Range(seq) == { seq[i] : i \in DOMAIN seq }

\* sorted(set) for a set of values that order lists
Sorted(S, order) == SelectSeq(order, LAMBDA x : x \in S)

\* The RLE payload stored with each layer (mask_data_rle, JSON text).
StoredRle(layer_id) ==
    IF layer_id = "L1"
    THEN [ kind |-> "json", value |-> [ counts |-> <<1, 2, 1>>, size |-> <<2, 2>> ] ]
    ELSE [ kind |-> "json", value |-> [ counts |-> <<0, 4>>, size |-> <<2, 2>> ] ]

\* A row as the layer queries return it: mask_data_rle replaced by
\* json.loads of it, left as stored when it is not JSON.
LayerDict(row) ==
    [ row EXCEPT !.mask_data_rle = IF @.kind = "json" THEN @.value ELSE @ ]

\* The rows of L as a list in rowid order.
RowList(L) ==
    LET ids == SelectSeq(LayerOrder, LAMBDA id : \E l \in L : l.layer_id = id)
    IN  [ i \in DOMAIN ids |-> LayerDict(CHOOSE l \in L : l.layer_id = ids[i]) ]

\* The stored layers with the given ids (the layer-id allow-list).
get_layers_by_ids(L, layer_ids) ==
    SelectSeq(RowList(L), LAMBDA l : l.layer_id \in Range(layer_ids))

get_image_hashes_by_statuses(I, statuses) ==
    IF statuses = <<>> THEN <<>>
    ELSE Sorted({ r.image_hash : r \in { q \in I : q.status \in Range(statuses) } },
                HashOrder)

get_layers_by_image_and_statuses(L, image_hashes, layer_statuses) ==
    IF image_hashes = <<>> THEN <<>>
    ELSE SelectSeq(RowList(L),
           LAMBDA l : /\ l.image_hash_ref \in Range(image_hashes)
                      /\ (layer_statuses # <<>> => l.status \in Range(layer_statuses)))

\* The parameters get_layers_by_image_and_statuses declares and the
\* positional arguments prepare_export_data passes to it.
GET_LAYERS_BY_IMAGE_AND_STATUSES_PARAMS ==
    <<"project_id", "image_hashes", "layer_statuses">>
PREPARE_EXPORT_DATA_ARGUMENTS ==
    <<"project_id", "image_hashes", "layer_statuses", "visible_filter">>

\* A call with more positional arguments than parameters raises TypeError.
CallRaisesArityError(arguments, params) == Len(arguments) > Len(params)

\* layer.get("visible", True)
Visible(layer) == IF "visible" \in DOMAIN layer THEN layer.visible ELSE TRUE

\* layer.get("class_label") or [], json.loads of a str, [text] when the
\* text is not JSON
ParseTags(layer) ==
    IF "class_label" \notin DOMAIN layer THEN <<>>
    ELSE IF layer.class_label.kind = "null" THEN <<>>
    ELSE IF layer.class_label.kind = "json" THEN layer.class_label.value
    ELSE << layer.class_label.value[1] >>

\* any(t in class_labels for t in layer_tags)
AnyTagIn(layer_tags, class_labels) ==
    \E i \in DOMAIN layer_tags : layer_tags[i] \in Range(class_labels)

\* include_layer with the 'or' branch written as the 'and' branch.
include_layer_OrAsAnd(layer, visibility_mode, class_labels) ==
    LET layer_tags == ParseTags(layer)
    IN  IF visibility_mode \in {"and", "or"}
        THEN Visible(layer) /\ (class_labels # <<>> => AnyTagIn(layer_tags, class_labels))
        ELSE class_labels # <<>> => AnyTagIn(layer_tags, class_labels)

\* include_layer with the else branch starting from the visibility flag.
include_layer_NoneReadsVisible(layer, visibility_mode, class_labels) ==
    LET layer_tags == ParseTags(layer)
    IN  IF visibility_mode = "and"
        THEN Visible(layer) /\ (class_labels # <<>> => AnyTagIn(layer_tags, class_labels))
        ELSE IF visibility_mode = "or"
        THEN Visible(layer) \/ (class_labels # <<>> /\ AnyTagIn(layer_tags, class_labels))
        ELSE IF class_labels # <<>> THEN AnyTagIn(layer_tags, class_labels)
             ELSE Visible(layer)

\* The value of include after the body of the filter loop.
include_layer(layer, visibility_mode, class_labels) ==
    LET layer_tags == ParseTags(layer)
    IN  IF visibility_mode = "and"
        THEN IF class_labels # <<>>
             THEN Visible(layer) /\ AnyTagIn(layer_tags, class_labels)
             ELSE Visible(layer)
        ELSE IF visibility_mode = "or"
        THEN IF class_labels # <<>> /\ AnyTagIn(layer_tags, class_labels)
             THEN TRUE
             ELSE Visible(layer)
        ELSE IF class_labels # <<>>
             THEN AnyTagIn(layer_tags, class_labels)
             ELSE TRUE

\* image_hashes.extend([x for x in more if x not in image_hashes])
ExtendMissing(image_hashes, more) ==
    image_hashes \o SelectSeq(more, LAMBDA x : x \notin Range(image_hashes))

\* Foreground positions (from 0) of an uncompressed RLE.
ForegroundOf(rle) ==
    LET flat == decode_loop(1, rle.counts, 0, <<>>)
    IN  { k - 1 : k \in { n \in DOMAIN flat : flat[n] = 1 } }

SetMin(S) == CHOOSE x \in S : \A y \in S : x <= y
SetMax(S) == CHOOSE x \in S : \A y \in S : x >= y

\* pycocotools frPyObjects / toBbox / area on an uncompressed RLE: the
\* counts run down the columns, bbox is [x, y, width, height].
convert_rle_to_bbox_and_area(rle) ==
    LET h  == rle.size[1]
        fg == ForegroundOf(rle)
        xs == { k \div h : k \in fg }
        ys == { k % h : k \in fg }
    IN  IF fg = {} \/ h = 0
        THEN [ bbox |-> <<0, 0, 0, 0>>, area |-> 0 ]
        ELSE [ bbox |-> << SetMin(xs), SetMin(ys),
                          SetMax(xs) - SetMin(xs) + 1, SetMax(ys) - SetMin(ys) + 1 >>,
               area |-> Cardinality(fg) ]

\* _prepare_coco_structure: no images, no annotations, the default category
prepare_coco_structure ==
    [ images |-> <<>>, annotations |-> <<>>,
      categories |-> << [ id |-> 1, name |-> "object" ] >> ]

\* The category table: the sorted labels numbered from 1, then 'unlabeled'.
categories_of(unique_labels) ==
    [ i \in 1..(Len(unique_labels) + 1) |->
        IF i <= Len(unique_labels)
        THEN [ id |-> i, name |-> unique_labels[i] ]
        ELSE [ id |-> i, name |-> "unlabeled" ] ]

\* category_map.get(tag, default_cat); tag is <<>> for None
category_id_of(unique_labels, tag) ==
    IF tag # <<>> /\ tag[1] \in Range(unique_labels)
    THEN CHOOSE i \in DOMAIN unique_labels : unique_labels[i] = tag[1]
    ELSE Len(unique_labels) + 1

\* info.get("original_filename") or f"{img_hash}.jpg", as a list of parts
file_name_of(info) ==
    IF info.original_filename # None THEN << info.original_filename >>
    ELSE info.image_hash \o << ".jpg" >>

\* The loop that appends one image record per hash that is in the pool.
RECURSIVE images_loop(_, _, _, _)
images_loop(idx, image_hashes, I, st) ==
    IF idx > Len(image_hashes) THEN st
    ELSE IF RowsOf(I, image_hashes[idx]) = {}
    THEN images_loop(idx + 1, image_hashes, I, st)
    ELSE LET info == get_image_by_hash(I, image_hashes[idx])
         IN  images_loop(idx + 1, image_hashes, I,
               [ images |-> Append(st.images,
                              [ id |-> idx,
                                width |-> info.width, height |-> info.height,
                                file_name |-> file_name_of(info) ]),
                 image_id_map |-> st.image_id_map \cup { <<info.image_hash, idx>> } ])

\* for tag in layer_tags or [None]: append one annotation.  st.sources
\* keeps, next to each annotation, the id of the layer it was made from.
RECURSIVE tags_loop(_, _, _, _, _, _)
tags_loop(j, tags, layer, img_id, unique_labels, st) ==
    IF j > Len(tags) THEN st
    ELSE LET geometry == convert_rle_to_bbox_and_area(layer.mask_data_rle)
         IN  tags_loop(j + 1, tags, layer, img_id, unique_labels,
               [ annotations |-> Append(st.annotations,
                   [ id           |-> Len(st.annotations) + 1,
                     image_id     |-> img_id,
                     category_id  |-> category_id_of(unique_labels, tags[j]),
                     segmentation |-> layer.mask_data_rle,
                     area         |-> geometry.area,
                     bbox         |-> geometry.bbox ]),
                 sources |-> Append(st.sources, layer.layer_id) ])

\* tags_loop that stops after the first tag of a layer.
annotations_of_layer_FirstTagOnly(tags, layer, img_id, unique_labels, st) ==
    tags_loop(1, << tags[1] >>, layer, img_id, unique_labels, st)

\* The annotations one surviving layer adds.
annotations_of_layer(tags, layer, img_id, unique_labels, st) ==
    tags_loop(1, tags, layer, img_id, unique_labels, st)

\* for layer in all_layers: skip a layer whose image has no record
RECURSIVE annotations_loop(_, _, _, _, _)
annotations_loop(i, all_layers, image_id_map, unique_labels, st) ==
    IF i > Len(all_layers) THEN st
    ELSE LET layer == all_layers[i]
             ids == { m[2] : m \in { q \in image_id_map : q[1] = layer.image_hash_ref } }
             layer_tags == ParseTags(layer)
             tags == IF layer_tags # <<>>
                     THEN [ j \in DOMAIN layer_tags |-> << layer_tags[j] >> ]
                     ELSE << <<>> >>
         IN  IF ids = {}
             THEN annotations_loop(i + 1, all_layers, image_id_map, unique_labels, st)
             ELSE annotations_loop(i + 1, all_layers, image_id_map, unique_labels,
                    annotations_of_layer(tags, layer, CHOOSE id \in ids : TRUE,
                                         unique_labels, st))

\* export_image_hashes keeping the hashes the filters selected.
export_image_hashes_KeepSelected(image_hashes, all_layers) ==
    Sorted(Range(image_hashes)
             \cup { all_layers[i].image_hash_ref : i \in DOMAIN all_layers }, HashOrder)

\* sorted({layer["image_hash_ref"] for layer in all_layers}): the hashes
\* the document is built for replace the ones the filters selected.
export_image_hashes(image_hashes, all_layers) ==
    Sorted({ all_layers[i].image_hash_ref : i \in DOMAIN all_layers }, HashOrder)

\* What prepare_export_data hands back when it builds nothing: (None, "").
\* candidates is all_layers as fetched, survivors all_layers after the
\* filter loop, doc the document that was serialised.
NoResult ==
    [ outcome |-> "none", kind |-> "none", candidates |-> <<>>,
      survivors |-> <<>>, image_id_map |-> {}, sources |-> <<>>,
      doc |-> prepare_coco_structure ]

\* The COCO branch of prepare_export_data after the filter loop.
coco_document(I, image_hashes, candidates, all_layers) ==
    LET empty == [ NoResult EXCEPT !.outcome = "returned", !.kind = "coco",
                                   !.candidates = candidates,
                                   !.survivors = all_layers ]
    IN  IF image_hashes = <<>> THEN empty
        ELSE
          LET hashes == export_image_hashes(image_hashes, all_layers)
          IN  IF hashes = <<>> THEN empty
              ELSE
                LET tag_set == UNION { Range(ParseTags(all_layers[i])) : i \in DOMAIN all_layers }
                    unique_labels == Sorted(tag_set, LabelOrder)
                    imgs == images_loop(1, hashes, I,
                              [ images |-> <<>>, image_id_map |-> {} ])
                    anns == annotations_loop(1, all_layers, imgs.image_id_map,
                              unique_labels, [ annotations |-> <<>>, sources |-> <<>> ])
                IN  [ empty EXCEPT
                        !.image_id_map = imgs.image_id_map,
                        !.sources = anns.sources,
                        !.doc = [ images |-> imgs.images,
                                  annotations |-> anns.annotations,
                                  categories |-> categories_of(unique_labels) ] ]

prepare_export_data(I, L, filters, export_format, export_schema) ==
    IF export_format = "coco_rle_json" /\ export_schema = "coco_instance_segmentation"
    THEN
      IF filters.layer_ids # <<>>
      THEN
        LET found == get_layers_by_ids(L, filters.layer_ids)
            all_layers == IF filters.visibility_mode = "and"
                          THEN SelectSeq(found, Visible) ELSE found
            image_hashes ==
                ExtendMissing(filters.image_hashes,
                  [ i \in DOMAIN all_layers |-> all_layers[i].image_hash_ref ])
            filtered == SelectSeq(all_layers,
                          LAMBDA l : include_layer(l, filters.visibility_mode,
                                                   filters.class_labels))
        IN  coco_document(I, image_hashes, found, filtered)
      ELSE
        LET image_hashes ==
                IF filters.image_statuses # <<>>
                THEN ExtendMissing(filters.image_hashes,
                       get_image_hashes_by_statuses(I, filters.image_statuses))
                ELSE filters.image_hashes
        IN  IF CallRaisesArityError(PREPARE_EXPORT_DATA_ARGUMENTS,
                                    GET_LAYERS_BY_IMAGE_AND_STATUSES_PARAMS)
            THEN [ NoResult EXCEPT !.outcome = "raised", !.kind = "TypeError" ]
            ELSE
              LET all_layers == get_layers_by_image_and_statuses(
                                  L, image_hashes, filters.layer_statuses)
                  filtered == SelectSeq(all_layers,
                                LAMBDA l : include_layer(l, filters.visibility_mode,
                                                         filters.class_labels))
              IN  coco_document(I, image_hashes, all_layers, filtered)
    ELSE IF export_format = "overlay_images_zip"
    THEN \* image_hashes is read before any assignment in this branch
         [ NoResult EXCEPT !.outcome = "raised", !.kind = "UnboundLocalError" ]
    ELSE IF export_format = "project_db_json"
    THEN [ NoResult EXCEPT !.outcome = "returned", !.kind = "project_db_json",
                           !.doc = [ Images |-> I, Mask_Layers |-> L ] ]
    ELSE NoResult

\* The filters of an export request; a missing key reads as the empty
\* list, a missing visibility_mode as None.
ExportFilters ==
    [ image_statuses  : { <<>>, <<"approved">> },
      layer_statuses  : { <<>>, <<"edited">> },
      class_labels    : { <<>>, <<"cat">> },
      image_hashes    : { <<>>, << calculate_file_hash("B1") >> },
      layer_ids       : { <<>>, <<"L2">>, <<"L1", "L2">> },
      visibility_mode : { None, "none", "and", "or" } ]

NoFilters ==
    [ image_statuses |-> <<>>, layer_statuses |-> <<>>, class_labels |-> <<>>,
      image_hashes |-> <<>>, layer_ids |-> <<>>, visibility_mode |-> None ]

\* The export requests: every filter set for the COCO format, and the
\* other formats, which read no filter.
ExportRequests ==
    { [ filters |-> f, format |-> "coco_rle_json" ] : f \in ExportFilters }
      \cup { [ filters |-> NoFilters, format |-> fmt ] :
               fmt \in {"overlay_images_zip", "project_db_json", "bogus"} }

\* POST /api/project/{id}/export: prepare_export_data runs on the request
\* in flight, under the default schema.
api_export_data ==
    /\ lastOp.op = "call prepare_export_data"
    /\ LET res == prepare_export_data(Images, Mask_Layers, lastOp.filters,
                                      lastOp.format, "coco_instance_segmentation")
       IN  lastOp' = [ op        |-> "prepare_export_data",
                       filters   |-> lastOp.filters,
                       format    |-> lastOp.format,
                       outcome   |-> res.outcome,
                       kind      |-> res.kind,
                       candidates |-> res.candidates,
                       survivors |-> res.survivors,
                       image_id_map |-> res.image_id_map,
                       sources   |-> res.sources,
                       doc       |-> res.doc ]
    /\ UNCHANGED <<Images, Image_Sources, Mask_Layers, stored_files, clock, everSkip,
                   Project_Info, threads>>

\* label_counts: for each label, the number of surviving layers carrying it.
label_counts_of(all_layers) ==
    LET labels == UNION { Range(ParseTags(all_layers[i])) : i \in DOMAIN all_layers }
    IN  [ label \in labels |->
            Cardinality({ i \in DOMAIN all_layers :
                            label \in Range(ParseTags(all_layers[i])) }) ]

\* What calculate_export_stats hands back when it raises.
NoStats ==
    [ outcome |-> "raised", kind |-> "TypeError",
      num_images |-> 0, num_layers |-> 0, label_counts |-> << >> ]

\* export_logic.calculate_export_stats: the candidates as export fetches
\* them, the same filter loop, then the counts.
calculate_export_stats(I, L, filters) ==
    LET counts(all_layers) ==
            [ outcome |-> "returned", kind |-> "stats",
              num_images |-> Cardinality({ all_layers[i].image_hash_ref :
                                             i \in DOMAIN all_layers }),
              num_layers |-> Len(all_layers),
              label_counts |-> label_counts_of(all_layers) ]
        keep(l) == include_layer(l, filters.visibility_mode, filters.class_labels)
    IN  IF filters.layer_ids # <<>>
        THEN counts(SelectSeq(get_layers_by_ids(L, filters.layer_ids), keep))
        ELSE
          LET image_hashes ==
                  IF filters.image_statuses # <<>>
                  THEN ExtendMissing(filters.image_hashes,
                         get_image_hashes_by_statuses(I, filters.image_statuses))
                  ELSE filters.image_hashes
          IN  IF CallRaisesArityError(PREPARE_EXPORT_DATA_ARGUMENTS,
                                      GET_LAYERS_BY_IMAGE_AND_STATUSES_PARAMS)
              THEN NoStats
              ELSE counts(SelectSeq(
                     get_layers_by_image_and_statuses(L, image_hashes,
                                                      filters.layer_statuses),
                     keep))

\* api_export_stats with a call of update_last_modified after the counts.
api_export_stats_Touching ==
    /\ lastOp.op = "call calculate_export_stats"
    /\ LET res == calculate_export_stats(Images, Mask_Layers, lastOp.filters)
       IN  lastOp' = [ op |-> "calculate_export_stats", filters |-> lastOp.filters,
                       outcome |-> res.outcome, kind |-> res.kind,
                       num_images |-> res.num_images, num_layers |-> res.num_layers,
                       label_counts |-> res.label_counts ]
    /\ Project_Info' = update_last_modified(Project_Info, ActiveProject, clock)
    /\ UNCHANGED <<Images, Image_Sources, Mask_Layers, stored_files, clock, everSkip,
                   threads>>

\* POST /api/project/{id}/export_stats: calculate_export_stats runs on the
\* filters of the request in flight.
api_export_stats ==
    /\ lastOp.op = "call calculate_export_stats"
    /\ LET res == calculate_export_stats(Images, Mask_Layers, lastOp.filters)
       IN  lastOp' = [ op |-> "calculate_export_stats", filters |-> lastOp.filters,
                       outcome |-> res.outcome, kind |-> res.kind,
                       num_images |-> res.num_images, num_layers |-> res.num_layers,
                       label_counts |-> res.label_counts ]
    /\ UNCHANGED <<Images, Image_Sources, Mask_Layers, stored_files, clock, everSkip,
                   Project_Info, threads>>

\* A stored layer of a loaded database.
LoadedLayer(layer_id, image_hash_ref, status, visible, class_label) ==
    [ layer_id       |-> layer_id,
      image_hash_ref |-> image_hash_ref,
      status         |-> status,
      visible        |-> visible,
      class_label    |-> class_label,
      mask_data_rle  |-> StoredRle(layer_id) ]

\* A project database received by POST /api/project/upload_db
\* (server.py:181-229): two images, one reviewed and one without filename,
\* layer L1 on the first and, if present, layer L2 on either; each layer
\* visible or hidden and labelled or not.  One export request or one
\* statistics request is in flight.
InitLoadedExport ==
    \E v1 \in BOOLEAN, c1 \in ClassLabelTexts,
       with2 \in BOOLEAN, b2 \in {"B1", "B2"}, v2 \in BOOLEAN, c2 \in ClassLabelTexts,
       req \in ExportRequests :
      /\ Images = { LoadedRow("B1", "a.jpg", "upload_0", "approved"),
                    LoadedRow("B2", None, "upload_0", "in_progress") }
      /\ Mask_Layers =
           { LoadedLayer("L1", calculate_file_hash("B1"), "prediction", v1, c1) }
             \cup IF with2
                  THEN { LoadedLayer("L2", calculate_file_hash(b2), "edited", v2, c2) }
                  ELSE {}
      /\ Image_Sources = { [source_id |-> "upload_0", type |-> "upload"] }
      /\ stored_files = { get_sharded_image_path(calculate_file_hash("B1"), ".jpg"),
                          get_sharded_image_path(calculate_file_hash("B2"), ".jpg") }
      /\ clock = 1
      /\ everSkip = {}
      /\ Project_Info = (ActiveProject :> ProjectRow("P one", 0))
      /\ threads = NoThreads
      /\ \/ lastOp = [ op |-> "call prepare_export_data",
                       filters |-> req.filters, format |-> req.format ]
         \/ /\ req.format = "coco_rle_json"
            /\ lastOp = [ op |-> "call calculate_export_stats",
                          filters |-> req.filters ]

NextExport == api_export_data \/ api_export_stats

SpecExport == InitLoadedExport /\ [][NextExport]_vars

(* --------------------------- Mask Layer Store --------------------------- *)
MaxStoreCalls == 3  \* store calls per behaviour

\* A stored layer with the columns the attribute updates write.
StoredLayer(layer_id, image_hash_ref, status) ==
    [ layer_id       |-> layer_id,
      image_hash_ref |-> image_hash_ref,
      status         |-> status,
      name           |-> None,
      class_label    |-> NullText,
      display_color  |-> None,
      mask_data_rle  |-> StoredRle(layer_id) ]

\* delete_image_from_pool on a connection without PRAGMA foreign_keys: the
\* layers of the deleted image stay.
delete_image_from_pool_NoCascade(I, L, image_hash) ==
    [ Images |-> I \ RowsOf(I, image_hash), Mask_Layers |-> L ]

\* DELETE FROM Images WHERE image_hash = ? on a connection that enforces
\* Mask_Layers.image_hash_ref REFERENCES Images ON DELETE CASCADE.
delete_image_from_pool(I, L, image_hash) ==
    [ Images      |-> I \ RowsOf(I, image_hash),
      Mask_Layers |-> { l \in L : l.image_hash_ref # image_hash } ]

\* SELECT * FROM Mask_Layers WHERE image_hash_ref = ?, each row with its
\* mask_data_rle decoded; the order among the rows is rowid order here.
get_mask_layers_for_image(L, image_hash) ==
    SelectSeq(RowList(L), LAMBDA l : l.image_hash_ref = image_hash)

\* update_mask_layer_basic whose UPDATE also rewrites mask_data_rle.
update_mask_layer_basic_WritesPayload(L, layer_id, name, class_label, display_color) ==
    IF name = None /\ class_label = None /\ display_color = None
    THEN [ Mask_Layers |-> L, updated |-> FALSE ]
    ELSE [ Mask_Layers |->
             { IF l.layer_id = layer_id
               THEN [ l EXCEPT
                        !.name = IF name # None THEN name ELSE @,
                        !.class_label =
                            IF class_label # None THEN PlainText(class_label) ELSE @,
                        !.display_color =
                            IF display_color # None THEN display_color ELSE @,
                        !.mask_data_rle = NullText ]
               ELSE l : l \in L },
           updated |-> TRUE ]

\* db_manager.update_mask_layer_basic: the SET list holds the arguments
\* that are not None; with none of them the function returns before the
\* UPDATE and before update_last_modified.
update_mask_layer_basic(L, layer_id, name, class_label, display_color) ==
    IF name = None /\ class_label = None /\ display_color = None
    THEN [ Mask_Layers |-> L, updated |-> FALSE ]
    ELSE [ Mask_Layers |->
             { IF l.layer_id = layer_id
               THEN [ l EXCEPT
                        !.name = IF name # None THEN name ELSE @,
                        !.class_label =
                            IF class_label # None THEN PlainText(class_label) ELSE @,
                        !.display_color =
                            IF display_color # None THEN display_color ELSE @ ]
               ELSE l : l \in L },
           updated |-> TRUE ]

\* The keyword arguments project_logic.update_mask_layer_basic passes to
\* db_manager.update_mask_layer_basic.
UPDATE_MASK_LAYER_KEYWORDS ==
    {"name", "class_label", "display_color", "visible", "mask_data_rle", "status"}

\* The name, class_label and display_color of an attribute update.
AttributeUpdates ==
    { <<None, None, None>>, <<"n", None, None>>, <<None, "cat", None>>,
      <<"n", "cat", "#f00">> }

\* db_manager.set_project_name: the UPDATE raises on a database file
\* without tables, after the connection created the file.
set_project_name(P, project_id, new_name, now) ==
    LET P1 == get_db_connection(P, project_id)
    IN  IF ~P1[project_id].tables
        THEN [ Project_Info |-> P1, raised |-> TRUE ]
        ELSE [ Project_Info |->
                 update_last_modified(
                   [ P1 EXCEPT ![project_id].project_name = new_name ],
                   project_id, now),
               raised |-> FALSE ]

\* db_manager.list_project_ids: the database files whose project name can
\* be read and is not empty.
list_project_ids(P) ==
    { pid \in DOMAIN P : P[pid].tables /\ P[pid].project_name # None }

\* The entry list_existing_projects builds for one project.
ProjectEntry(P, pid) ==
    [ id |-> pid, name |-> P[pid].project_name,
      last_modified |-> P[pid].last_modified_at_content ]

\* The lists list_existing_projects can return: one entry per listed
\* project, sorted by last_modified, latest first.  os.listdir fixes no
\* order, so entries with equal last_modified come in either order.
list_existing_projects(P) ==
    LET ids == list_project_ids(P)
        n   == Cardinality(ids)
    IN  { [ i \in 1..n |-> ProjectEntry(P, order[i]) ] :
            order \in { o \in [1..n -> ids] :
                          /\ \A i, j \in 1..n : i # j => o[i] # o[j]
                          /\ \A i, j \in 1..n :
                               i < j => P[o[i]].last_modified_at_content
                                          >= P[o[j]].last_modified_at_content } }

\* The history record of a store call.
StoreRecord(op) ==
    [ op |-> op, prev_op |-> lastOp.op, project_id |-> ActiveProject,
      image_hash |-> <<>>, layer_id |-> None, outcome |-> "returned",
      status |-> None, wrote |-> FALSE, updated |-> FALSE,
      repeated |-> FALSE, prev_status |-> None, prev_wrote |-> FALSE,
      masks |-> <<>>, listing |-> <<>> ]

\* Each call reads datetime.utcnow() later than the call before it.
StoreCall ==
    /\ clock <= MaxStoreCalls
    /\ clock' = clock + 1
    /\ UNCHANGED <<Image_Sources, stored_files, everSkip, threads>>

\* db_manager.save_mask_layer called for a pooled image
save_mask_layer_call ==
    \E image_hash \in RequestHashes, u \in Uuids :
      LET saved == save_mask_layer(Mask_Layers, Images, "layer_" \o u, image_hash,
                                   "prediction")
      IN  /\ StoreCall
          /\ Mask_Layers' = saved.Mask_Layers
          /\ Project_Info' =
               IF saved.raised THEN Project_Info
               ELSE update_last_modified(Project_Info, ActiveProject, clock')
          /\ lastOp' = [ StoreRecord("save_mask_layer") EXCEPT
                           !.image_hash = image_hash,
                           !.layer_id = "layer_" \o u,
                           !.outcome = IF saved.raised THEN "raised" ELSE "returned" ]
          /\ UNCHANGED Images

\* db_manager.delete_mask_layer
delete_mask_layer_call ==
    \E layer_id \in LayerIds :
      /\ StoreCall
      /\ Mask_Layers' = delete_mask_layer(Mask_Layers, layer_id)
      /\ Project_Info' = update_last_modified(Project_Info, ActiveProject, clock')
      /\ lastOp' = [ StoreRecord("delete_mask_layer") EXCEPT !.layer_id = layer_id ]
      /\ UNCHANGED Images

\* db_manager.update_mask_layer_basic
update_mask_layer_basic_call ==
    \E layer_id \in LayerIds, attributes \in AttributeUpdates :
      LET res == update_mask_layer_basic(Mask_Layers, layer_id, attributes[1],
                                         attributes[2], attributes[3])
      IN  /\ StoreCall
          /\ Mask_Layers' = res.Mask_Layers
          /\ Project_Info' =
               IF res.updated
               THEN update_last_modified(Project_Info, ActiveProject, clock')
               ELSE Project_Info
          /\ lastOp' = [ StoreRecord("update_mask_layer_basic") EXCEPT
                           !.layer_id = layer_id, !.updated = res.updated ]
          /\ UNCHANGED Images

\* db_manager.update_mask_layer_status
update_mask_layer_status_call ==
    \E layer_id \in LayerIds, status \in {"edited"} :
      /\ StoreCall
      /\ Mask_Layers' = update_mask_layer_status(Mask_Layers, layer_id, status)
      /\ Project_Info' = update_last_modified(Project_Info, ActiveProject, clock')
      /\ lastOp' = [ StoreRecord("update_mask_layer_status") EXCEPT
                       !.layer_id = layer_id, !.status = status ]
      /\ UNCHANGED Images

\* PUT /images/{image_hash}/layers/{layer_id}
\*   -> project_logic.update_mask_layer_basic, whose call of
\*      db_manager.update_mask_layer_basic names parameters it lacks
api_update_mask_layer ==
    \E layer_id \in LayerIds, attributes \in AttributeUpdates :
      LET raises == CallRaisesTypeError(UPDATE_MASK_LAYER_KEYWORDS,
                                        UPDATE_MASK_LAYER_BASIC_PARAMS)
          res == update_mask_layer_basic(Mask_Layers, layer_id, attributes[1],
                                         attributes[2], attributes[3])
      IN  /\ StoreCall
          /\ Mask_Layers' = IF raises THEN Mask_Layers ELSE res.Mask_Layers
          /\ Project_Info' =
               IF ~raises /\ res.updated
               THEN update_last_modified(Project_Info, ActiveProject, clock')
               ELSE Project_Info
          /\ lastOp' = [ StoreRecord("api_update_mask_layer") EXCEPT
                           !.layer_id = layer_id,
                           !.updated = ~raises /\ res.updated,
                           !.outcome = IF raises THEN "raised" ELSE "returned" ]
          /\ UNCHANGED Images

\* db_manager.delete_image_from_pool
delete_image_from_pool_call ==
    \E image_hash \in RequestHashes :
      LET res == delete_image_from_pool(Images, Mask_Layers, image_hash)
      IN  /\ StoreCall
          /\ Images' = res.Images
          /\ Mask_Layers' = res.Mask_Layers
          /\ Project_Info' = update_last_modified(Project_Info, ActiveProject, clock')
          /\ lastOp' = [ StoreRecord("delete_image_from_pool") EXCEPT
                           !.image_hash = image_hash ]

\* GET /images/{image_hash}/masks -> db_manager.get_mask_layers_for_image
api_get_image_masks ==
    \E image_hash \in RequestHashes :
      /\ StoreCall
      /\ lastOp' = [ StoreRecord("get_mask_layers_for_image") EXCEPT
                       !.image_hash = image_hash,
                       !.masks = get_mask_layers_for_image(Mask_Layers, image_hash) ]
      /\ UNCHANGED <<Images, Mask_Layers, Project_Info>>

\* project_logic.sync_image_status_with_layers called on its own; repeated
\* says the call before it was the same call for the same image.
sync_image_status_with_layers_call ==
    \E image_hash \in RequestHashes :
      LET synced == sync_image_status_with_layers(Images, Mask_Layers, image_hash)
          repeated == /\ lastOp.op = "sync_image_status_with_layers"
                      /\ lastOp.image_hash = image_hash
      IN  /\ StoreCall
          /\ Images' = synced.Images
          /\ Project_Info' =
               IF synced.Images # Images
               THEN update_last_modified(Project_Info, ActiveProject, clock')
               ELSE Project_Info
          /\ lastOp' = [ StoreRecord("sync_image_status_with_layers") EXCEPT
                           !.image_hash = image_hash,
                           !.status = synced.status,
                           !.wrote = (synced.Images # Images),
                           !.repeated = repeated,
                           !.prev_status = IF repeated THEN lastOp.status ELSE None,
                           !.prev_wrote = IF repeated THEN lastOp.wrote ELSE FALSE ]
          /\ UNCHANGED Mask_Layers

\* PUT /api/project/{project_id} -> project_logic.rename_project
api_rename_project ==
    \E project_id \in {"p2", "ghost"} :
      LET res == set_project_name(Project_Info, project_id, "renamed", clock')
      IN  /\ StoreCall
          /\ Project_Info' = res.Project_Info
          /\ lastOp' = [ StoreRecord("rename_project") EXCEPT
                           !.project_id = project_id,
                           !.outcome = IF res.raised THEN "raised" ELSE "returned" ]
          /\ UNCHANGED <<Images, Mask_Layers>>

\* GET /api/projects -> project_logic.list_existing_projects
api_list_projects ==
    \E listing \in list_existing_projects(Project_Info) :
      /\ StoreCall
      /\ lastOp' = [ StoreRecord("list_existing_projects") EXCEPT
                       !.listing = listing ]
      /\ UNCHANGED <<Images, Mask_Layers, Project_Info>>

\* A project database received by POST /api/project/upload_db
\* (server.py:181-229): two images, layer L1 on the first and layer L2 on
\* either, next to a second project modified no earlier than this one.
InitLoadedStore ==
    \E status \in {"in_progress", "approved"}, b2 \in {"B1", "B2"} :
      /\ Images = { LoadedRow("B1", "a.jpg", "upload_0", status),
                    LoadedRow("B2", None, "upload_0", "in_progress") }
      /\ Mask_Layers =
           { StoredLayer("L1", calculate_file_hash("B1"), "prediction"),
             StoredLayer("L2", calculate_file_hash(b2), "prediction") }
      /\ Image_Sources = { [source_id |-> "upload_0", type |-> "upload"] }
      /\ stored_files = { get_sharded_image_path(calculate_file_hash("B1"), ".jpg"),
                          get_sharded_image_path(calculate_file_hash("B2"), ".jpg") }
      /\ clock = 1
      /\ everSkip = {}
      /\ Project_Info = (ActiveProject :> ProjectRow("P one", 0))
                          @@ ("p2" :> ProjectRow("P two", 1))
      /\ threads = NoThreads
      /\ lastOp = [ op |-> "init" ]

NextStore ==
    \/ save_mask_layer_call
    \/ delete_mask_layer_call
    \/ update_mask_layer_basic_call
    \/ update_mask_layer_status_call
    \/ api_update_mask_layer
    \/ delete_image_from_pool_call
    \/ api_get_image_masks
    \/ sync_image_status_with_layers_call
    \/ api_rename_project
    \/ api_list_projects

SpecStore == InitLoadedStore /\ [][NextStore]_vars

(* ------------------- request handlers in the thread pool ---------------- *)
\* The requests run_in_threadpool runs at the same time, all for the image
\* with contents B1: two layer deletions, a commit and a status write.
RaceRequests ==
    ( "del1"   :> [ request |-> "delete", layer_id |-> "L1" ] )
 @@ ( "del2"   :> [ request |-> "delete", layer_id |-> "L2" ] )
 @@ ( "commit" :> [ request |-> "commit", layer_id |-> "layer_u1" ] )
 @@ ( "skip"   :> [ request |-> "status", layer_id |-> None ] )

RaceHash == calculate_file_hash("B1")

\* A handler before its first statement.  current and layer_count are the
\* locals of sync_image_status_with_layers; skip_at_read says a 'skip'
\* write had committed when the handler read the status; concurrent holds
\* the handlers that were between their first and last statement when this
\* handler wrote.
StartedThread(t) ==
    [ request |-> RaceRequests[t].request, layer_id |-> RaceRequests[t].layer_id,
      pc |-> "start", current |-> None, layer_count |-> 0,
      result |-> None, skip_at_read |-> FALSE, concurrent |-> {} ]

Running == { t \in DOMAIN threads : threads[t].pc \notin {"start", "done"} }

\* sync_image_status_with_layers up to its first return: the status read
\* by get_image_by_hash and whether the function returns it at once.
sync_read(I, image_hash) ==
    IF RowsOf(I, image_hash) = {}
    THEN [ returns |-> TRUE, current |-> "unprocessed" ]
    ELSE LET current == get_image_by_hash(I, image_hash).status
         IN  [ returns |-> current = "skip", current |-> current ]

\* The status sync_image_status_with_layers writes for the status it read
\* and the count it took, None for no write.
sync_target(current, layer_count) ==
    IF layer_count = 0
    THEN IF current # "unprocessed" THEN "unprocessed" ELSE None
    ELSE IF current = "unprocessed" THEN "in_progress" ELSE None

RaceFrame == UNCHANGED <<Image_Sources, stored_files, clock>>

\* delete_mask_layer_and_update_status, first statement: db_manager.delete_mask_layer
thread_delete_mask_layer ==
    \E t \in DOMAIN threads :
      /\ threads[t].request = "delete" /\ threads[t].pc = "start"
      /\ Mask_Layers' = delete_mask_layer(Mask_Layers, threads[t].layer_id)
      /\ Project_Info' = update_last_modified(Project_Info, ActiveProject, clock)
      /\ threads' = [ threads EXCEPT ![t].pc = "read" ]
      /\ lastOp' = [ op |-> "delete_mask_layer", thread |-> t ]
      /\ RaceFrame /\ UNCHANGED <<Images, everSkip>>

\* sync_image_status_with_layers: get_image_by_hash and the returns on a
\* missing image and on 'skip'
thread_sync_read ==
    \E t \in DOMAIN threads :
      LET read == sync_read(Images, RaceHash)
      IN  /\ threads[t].request = "delete" /\ threads[t].pc = "read"
          /\ threads' = [ threads EXCEPT
                            ![t].pc = IF read.returns THEN "done" ELSE "count",
                            ![t].current = read.current,
                            ![t].result = IF read.returns THEN read.current ELSE None,
                            ![t].skip_at_read = RaceHash \in everSkip ]
          /\ lastOp' = [ op |-> "sync_read", thread |-> t ]
          /\ RaceFrame /\ UNCHANGED <<Images, Mask_Layers, Project_Info, everSkip>>

\* sync_image_status_with_layers: count_mask_layers_for_image; without a
\* write to make the function returns the status it read
thread_sync_count ==
    \E t \in DOMAIN threads :
      LET layer_count == count_mask_layers_for_image(Mask_Layers, RaceHash)
          target == sync_target(threads[t].current, layer_count)
      IN  /\ threads[t].request = "delete" /\ threads[t].pc = "count"
          /\ threads' = [ threads EXCEPT
                            ![t].pc = IF target = None THEN "done" ELSE "write",
                            ![t].layer_count = layer_count,
                            ![t].result = IF target = None THEN threads[t].current
                                          ELSE None ]
          /\ lastOp' = [ op |-> "sync_count", thread |-> t ]
          /\ RaceFrame /\ UNCHANGED <<Images, Mask_Layers, Project_Info, everSkip>>

\* sync_image_status_with_layers: db_manager.update_image_status with the
\* status chosen from the locals, and the return of it
thread_sync_write ==
    \E t \in DOMAIN threads :
      LET target == sync_target(threads[t].current, threads[t].layer_count)
      IN  /\ threads[t].request = "delete" /\ threads[t].pc = "write"
          /\ Images' = update_image_status(Images, RaceHash, target)
          /\ everSkip' = SkipSeen(Images')
          /\ Project_Info' = update_last_modified(Project_Info, ActiveProject, clock)
          /\ threads' = [ threads EXCEPT
                            ![t].pc = "done", ![t].result = target,
                            ![t].concurrent = Running \ {t} ]
          /\ lastOp' = [ op |-> "sync_write", thread |-> t ]
          /\ RaceFrame /\ UNCHANGED Mask_Layers

\* api_update_image_status with status 'skip': one UPDATE and its commit
thread_update_image_status ==
    \E t \in DOMAIN threads :
      /\ threads[t].request = "status" /\ threads[t].pc = "start"
      /\ Images' = update_image_status(Images, RaceHash, "skip")
      /\ everSkip' = SkipSeen(Images')
      /\ Project_Info' = update_last_modified(Project_Info, ActiveProject, clock)
      /\ threads' = [ threads EXCEPT
                        ![t].pc = "done", ![t].result = "skip",
                        ![t].concurrent = Running ]
      /\ lastOp' = [ op |-> "update_image_status", thread |-> t ]
      /\ RaceFrame /\ UNCHANGED Mask_Layers

\* commit_final_masks: the save_mask_layer of its first mask; the call
\* raises and the handler ends before sync_image_status_with_layers
thread_commit_final_masks ==
    \E t \in DOMAIN threads :
      LET saved == save_mask_layer(Mask_Layers, Images, threads[t].layer_id,
                                   RaceHash, "final")
      IN  /\ threads[t].request = "commit" /\ threads[t].pc = "start"
          /\ Mask_Layers' = saved.Mask_Layers
          /\ Project_Info' =
               IF saved.raised THEN Project_Info
               ELSE update_last_modified(Project_Info, ActiveProject, clock)
          /\ threads' = [ threads EXCEPT
                            ![t].pc = IF saved.raised THEN "done" ELSE "read",
                            ![t].request = IF saved.raised THEN "commit" ELSE "delete",
                            ![t].result = IF saved.raised THEN "raised" ELSE None ]
          /\ lastOp' = [ op |-> "save_mask_layer", thread |-> t ]
          /\ RaceFrame /\ UNCHANGED <<Images, everSkip>>

\* A loaded project whose image B1 has layer L1 or both layers, with the
\* four requests received and none started.
InitRace ==
    \E present \in {{"L1"}, {"L1", "L2"}}, status \in {"in_progress", "approved"} :
      /\ Mask_Layers = { [ layer_id |-> id, image_hash_ref |-> RaceHash,
                           status |-> "prediction" ] : id \in present }
      /\ Images = { LoadedRow("B1", "a.jpg", "upload_0", status) }
      /\ Image_Sources = { [source_id |-> "upload_0", type |-> "upload"] }
      /\ stored_files = { get_sharded_image_path(RaceHash, ".jpg") }
      /\ clock = 1
      /\ everSkip = {}
      /\ lastOp = [ op |-> "init", thread |-> None ]
      /\ Project_Info = (ActiveProject :> ProjectRow("P one", 0))
      /\ threads = [ t \in DOMAIN RaceRequests |-> StartedThread(t) ]

NextRace ==
    \/ thread_delete_mask_layer
    \/ thread_sync_read
    \/ thread_sync_count
    \/ thread_sync_write
    \/ thread_update_image_status
    \/ thread_commit_final_masks

SpecRace == InitRace /\ [][NextRace]_vars

(* =============================== claims ================================= *)
IngestOps == {"add_image_source_upload", "add_image_source_folder"}

LayerOps ==
    {"process_automask_request", "commit_final_masks",
     "delete_mask_layer_and_update_status"}

\* The images the last layer operation touched: the one it was given and
\* the one that owned the layer it was given.
Touched == {lastOp.image_hash, lastOp.owner} \cap HashesOf(Images)

\* C1: after a layer add or layer remove, an image's status is 'unprocessed'
\* if and only if the image has zero mask layers and was never set to 'skip'.
C1_UnprocessedIffNoLayers ==
    lastOp.op \in LayerOps =>
        \A h \in Touched :
            (StatusOf(Images, h) = "unprocessed")
              <=> ( count_mask_layers_for_image(Mask_Layers, h) = 0
                    /\ h \notin everSkip )

\* C2: a layer-saving request that carries a mask for an 'unprocessed' image
\* without layers leaves the image with a layer and in status 'in_progress'.
C2_FirstLayerAdvances ==
    ( /\ lastOp.op \in {"process_automask_request", "commit_final_masks"}
      /\ lastOp.has_mask
      /\ lastOp.pre_status = "unprocessed"
      /\ lastOp.pre_layer_count = 0 )
    => ( /\ count_mask_layers_for_image(Mask_Layers, lastOp.image_hash) >= 1
         /\ StatusOf(Images, lastOp.image_hash) = "in_progress" )

\* C3: removing the last remaining layer of an image whose status is
\* in_progress, ready_for_review, approved or rejected makes it 'unprocessed'.
C3_LastLayerRemovedReverts ==
    ( /\ lastOp.op = "delete_mask_layer_and_update_status"
      /\ lastOp.owner # <<>>
      /\ lastOp.owner_pre_layer_count = 1
      /\ lastOp.owner_pre_status
           \in {"in_progress", "ready_for_review", "approved", "rejected"} )
    => StatusOf(Images, lastOp.owner) = "unprocessed"

\* A request that writes a status for image h explicitly.
ExplicitWrite(rec, h) ==
    /\ rec.op \in {"update_image_status", "update_image_state"}
    /\ rec.image_hash = h
    /\ rec.written # None

\* C4: 'skip' is sticky: a step that is not an explicit status write for an
\* image in status 'skip' leaves that image in status 'skip'.
C4_SkipSticky ==
    [][ \A h \in HashesOf(Images) :
          (StatusOf(Images, h) = "skip" /\ ~ExplicitWrite(lastOp', h))
            => StatusOf(Images', h) = "skip" ]_vars

\* C4 witness: the last layer of an image in status 'skip' was deleted, the
\* recomputation ran, and the image is still 'skip' with zero layers.
C4_Witness ==
    /\ lastOp.op = "delete_mask_layer_and_update_status"
    /\ lastOp.owner = lastOp.image_hash
    /\ lastOp.pre_status = "skip"
    /\ lastOp.pre_layer_count = 1
    /\ lastOp.image_status = "skip"
    /\ StatusOf(Images, lastOp.image_hash) = "skip"
    /\ count_mask_layers_for_image(Mask_Layers, lastOp.image_hash) = 0

\* C5: after an explicit status write returns, the stored status of the
\* image is the value written.
C5_ExplicitWriteVerbatim ==
    ( /\ lastOp.op \in {"update_image_status", "update_image_state"}
      /\ lastOp.outcome = "returned"
      /\ lastOp.written # None
      /\ lastOp.image_hash \in HashesOf(Images) )
    => StatusOf(Images, lastOp.image_hash) = lastOp.written

\* C6: after an existing layer is deleted, whatever image hash the request
\* named, the image that owned the layer obeys the state machine: left with
\* zero layers and not 'skip', it is 'unprocessed'.
C6_DeleteReevaluatesOwner ==
    ( /\ lastOp.op = "delete_mask_layer_and_update_status"
      /\ lastOp.owner \in HashesOf(Images)
      /\ count_mask_layers_for_image(Mask_Layers, lastOp.owner) = 0
      /\ StatusOf(Images, lastOp.owner) # "skip" )
    => StatusOf(Images, lastOp.owner) = "unprocessed"

\* C7: the Images table holds at most one row per content hash.
C7_OneRowPerHash ==
    \A r1, r2 \in Images : r1.image_hash = r2.image_hash => r1 = r2

\* C7 witness: contents already in the pool were ingested again through
\* another source, and the pool still holds them.
C7_Witness ==
    /\ lastOp.op \in IngestOps
    /\ \E i \in DOMAIN lastOp.results :
         /\ lastOp.results[i].in_pool
         /\ \E prev \in lastOp.results[i].prev_rows :
              prev.source_id_ref # lastOp.source_id
         /\ lastOp.results[i].image_hash \in HashesOf(Images)

\* C8: every file whose hash was already in the pool is reported as a
\* skipped duplicate: add_image_to_pool returned False for it, and the
\* result counts it in images_skipped_duplicates and not in images_added.
C8_DuplicateReported ==
    lastOp.op \in IngestOps =>
        LET dups == { i \in DOMAIN lastOp.results : lastOp.results[i].in_pool }
        IN  /\ \A i \in dups : ~lastOp.results[i].is_new
            /\ lastOp.images_skipped_duplicates = Cardinality(dups)
            /\ lastOp.images_added = Len(lastOp.results) - Cardinality(dups)

\* C9: the sharded store holds at most one file per content hash.
C9_OneStoredFilePerHash ==
    \A f1, f2 \in stored_files : f1.stem = f2.stem => f1 = f2

\* The rows with the hash of call i of the last ingestion, right after
\* that call: what the next call for the same hash found, or the table.
RowsAfterCall(i) ==
    LET h == lastOp.results[i].image_hash
        later == { j \in DOMAIN lastOp.results :
                     j > i /\ lastOp.results[j].image_hash = h }
    IN  IF later = {} THEN RowsOf(Images, h)
        ELSE lastOp.results[CHOOSE j \in later : \A k \in later : j <= k].prev_rows

\* The fields of an Images row that re-ingestion may not touch.
SameFixedFields(prev, after) ==
    /\ after.image_hash = prev.image_hash
    /\ after.status = prev.status
    /\ after.width = prev.width
    /\ after.height = prev.height
    /\ after.path_in_source = prev.path_in_source
    /\ after.added_to_pool_at = prev.added_to_pool_at

\* C10 as claimed: re-ingestion changes the stored filename and source
\* reference only where they were null, and no other field.
C10_ChangedOnlyIfNull ==
    lastOp.op \in IngestOps =>
        \A i \in DOMAIN lastOp.results :
            \A prev \in lastOp.results[i].prev_rows :
                \A after \in RowsAfterCall(i) :
                    /\ SameFixedFields(prev, after)
                    /\ prev.original_filename # None
                         => after.original_filename = prev.original_filename
                    /\ prev.source_id_ref # None
                         => after.source_id_ref = prev.source_id_ref

\* C10 amended: re-ingestion overwrites the stored filename and source
\* reference with the ones it was given, null before or not, and changes
\* no other field of the row.
C10_OverwrittenByNewValues ==
    lastOp.op \in IngestOps =>
        \A i \in DOMAIN lastOp.results :
            \A prev \in lastOp.results[i].prev_rows :
                /\ RowsAfterCall(i) # {}
                /\ \A after \in RowsAfterCall(i) :
                    /\ SameFixedFields(prev, after)
                    /\ after.original_filename = lastOp.results[i].filename
                    /\ after.source_id_ref = lastOp.source_id

\* C10 witness: a re-ingested hash whose row held another, non-null
\* filename and a reviewed status, now under the new filename.
C10_Witness ==
    /\ lastOp.op \in IngestOps
    /\ \E i \in DOMAIN lastOp.results :
         \E prev \in lastOp.results[i].prev_rows :
           /\ prev.original_filename \notin {None, lastOp.results[i].filename}
           /\ prev.status = "approved"
           /\ \E after \in RowsAfterCall(i) :
                after.original_filename = lastOp.results[i].filename

\* C11: decoding the encoding of a binary grid gives the grid back.
C11_RoundTrip ==
    (lastOp.op = "rle_to_binary_mask" /\ lastOp.round_trip)
        => lastOp.mask = lastOp.from_mask

\* The value the counts give the cell at flat position k (from 1): the
\* parity of the run that holds it, background past the last run.
CellOfCounts(counts, k) ==
    LET RECURSIVE SumTo(_)
        SumTo(n) == IF n = 0 THEN 0 ELSE counts[n] + SumTo(n - 1)
        holding == { n \in 1..Len(counts) : SumTo(n - 1) < k /\ k <= SumTo(n) }
    IN  IF holding = {} THEN 0 ELSE ((CHOOSE n \in holding : TRUE) - 1) % 2

\* C12: a decoded grid has exactly the declared h rows of exactly w cells;
\* each cell is the one the counts give it, background where the counts
\* run out, and counts past h*w cells are dropped.
C12_DeclaredSize ==
    lastOp.op = "rle_to_binary_mask" =>
        LET h == lastOp.rle.size[1]
            w == lastOp.rle.size[2]
        IN  /\ Len(lastOp.mask) = h
            /\ \A i \in 1..h :
                 /\ Len(lastOp.mask[i]) = w
                 /\ \A j \in 1..w :
                      lastOp.mask[i][j]
                        = CellOfCounts(lastOp.rle.counts, (i - 1) * w + j)

\* The sum of a counts list.
RECURSIVE SumCounts(_)
SumCounts(counts) ==
    IF counts = <<>> THEN 0 ELSE Head(counts) + SumCounts(Tail(counts))

\* C12 witness: a decoding whose counts hold foreground, fall short of the
\* declared size, and whose grid is full-sized and ends on background.
C12_Witness ==
    /\ lastOp.op = "rle_to_binary_mask"
    /\ lastOp.rle.size[1] > 0 /\ lastOp.rle.size[2] > 0
    /\ 0 < SumCounts(lastOp.rle.counts)
    /\ SumCounts(lastOp.rle.counts) < lastOp.rle.size[1] * lastOp.rle.size[2]
    /\ Len(lastOp.mask) = lastOp.rle.size[1]
    /\ Len(lastOp.mask[Len(lastOp.mask)]) = lastOp.rle.size[2]
    /\ \E j \in 1..lastOp.rle.size[2] : lastOp.mask[1][j] = 1
    /\ lastOp.mask[lastOp.rle.size[1]][lastOp.rle.size[2]] = 0

\* A COCO export request has been handled (it returned or it raised).
CocoExportDone ==
    lastOp.op = "prepare_export_data" /\ lastOp.format = "coco_rle_json"

CocoExportReturned == CocoExportDone /\ lastOp.outcome = "returned"

\* The stored layers as export reads them.
StoredLayers == { LayerDict(l) : l \in Mask_Layers }

\* The images the image-status and image-hash allow-lists select.
SelectedImages(filters) ==
    { r.image_hash : r \in { q \in Images :
          \/ q.image_hash \in Range(filters.image_hashes)
          \/ q.status \in Range(filters.image_statuses) } }

\* The candidate layers the resolution order names for a filter set.
ClaimedCandidates(filters) ==
    IF filters.layer_ids # <<>>
    THEN { l \in StoredLayers : l.layer_id \in Range(filters.layer_ids) }
    ELSE { l \in StoredLayers :
             /\ l.image_hash_ref \in SelectedImages(filters)
             /\ filters.layer_statuses # <<>>
                  => l.status \in Range(filters.layer_statuses) }

\* The layer's labels and the class-label allow-list have a label in common.
LabelsIntersect(layer, filters) ==
    Range(ParseTags(layer)) \cap Range(filters.class_labels) # {}

\* The visibility-mode / label predicate of the three modes.
ClaimedPredicate(layer, filters) ==
    IF filters.visibility_mode = "and"
    THEN Visible(layer) /\ (filters.class_labels = <<>> \/ LabelsIntersect(layer, filters))
    ELSE IF filters.visibility_mode = "or"
    THEN Visible(layer) \/ LabelsIntersect(layer, filters)
    ELSE filters.class_labels = <<>> \/ LabelsIntersect(layer, filters)

\* C13: with a layer-id allow-list the candidates are exactly the stored
\* layers with those ids, whatever the status allow-lists; without one they
\* are the layers of the images selected by status or hash, restricted by
\* layer status; the survivors are the candidates the predicate keeps.
C13_ResolutionOrder ==
    ( /\ CocoExportDone
      /\ \/ lastOp.filters.layer_ids # <<>>
         \/ lastOp.filters.image_statuses # <<>>
         \/ lastOp.filters.image_hashes # <<>> )
    => ( /\ lastOp.outcome = "returned"
         /\ Range(lastOp.candidates) = ClaimedCandidates(lastOp.filters)
         /\ Range(lastOp.survivors)
              = { l \in ClaimedCandidates(lastOp.filters) :
                    ClaimedPredicate(l, lastOp.filters) } )

\* C14: in mode 'and', on the layer-id path and on the status-derived path,
\* the survivors are exactly the candidates that are visible and, when a
\* class-label allow-list is given, carry one of its labels.
C14_AndMode ==
    ( /\ CocoExportDone
      /\ lastOp.filters.visibility_mode = "and"
      /\ \/ lastOp.filters.layer_ids # <<>>
         \/ lastOp.filters.image_statuses # <<>>
         \/ lastOp.filters.image_hashes # <<>> )
    => ( /\ lastOp.outcome = "returned"
         /\ Range(lastOp.survivors)
              = { l \in ClaimedCandidates(lastOp.filters) :
                    /\ Visible(l)
                    /\ lastOp.filters.class_labels = <<>>
                         \/ LabelsIntersect(l, lastOp.filters) } )

\* C15: in mode 'or' the survivors are exactly the candidates that are
\* visible or carry a label of the class-label allow-list.
C15_OrMode ==
    ( CocoExportReturned /\ lastOp.filters.visibility_mode = "or" )
    => /\ Range(lastOp.survivors)
            = { l \in Range(lastOp.candidates) :
                  Visible(l) \/ LabelsIntersect(l, lastOp.filters) }
       /\ Range(lastOp.sources) = { l.layer_id : l \in Range(lastOp.survivors) }

\* C15 witness: an 'or' export with an allow-list kept a hidden candidate
\* for its label and dropped a hidden candidate without it.
C15_Witness ==
    /\ CocoExportReturned
    /\ lastOp.filters.visibility_mode = "or"
    /\ lastOp.filters.class_labels # <<>>
    /\ \E l1, l2 \in Range(lastOp.candidates) :
         /\ ~Visible(l1) /\ l1 \in Range(lastOp.survivors)
         /\ l1.layer_id \in Range(lastOp.sources)
         /\ ~Visible(l2) /\ l2 \notin Range(lastOp.survivors)

\* The names of the categories of the annotations made from a layer.
CategoryNamesOf(layer_id) ==
    { c.name : c \in { d \in Range(lastOp.doc.categories) :
        \E k \in DOMAIN lastOp.doc.annotations :
          /\ lastOp.sources[k] = layer_id
          /\ lastOp.doc.annotations[k].category_id = d.id } }

\* C16: in mode 'none', or with no mode, visibility decides nothing: two
\* candidates of one image with the same labels both survive or both do
\* not, and without a class-label allow-list a hidden unlabeled candidate
\* is exported under 'unlabeled'.
C16_NoneIgnoresVisibility ==
    ( CocoExportReturned /\ lastOp.filters.visibility_mode \in {None, "none"} )
    => /\ \A l1, l2 \in Range(lastOp.candidates) :
            ( /\ ParseTags(l1) = ParseTags(l2)
              /\ l1.image_hash_ref = l2.image_hash_ref )
            => ( l1.layer_id \in Range(lastOp.sources)
                   <=> l2.layer_id \in Range(lastOp.sources) )
       /\ lastOp.filters.class_labels = <<>>
            => \A l \in Range(lastOp.candidates) :
                 (~Visible(l) /\ ParseTags(l) = <<>>)
                   => CategoryNamesOf(l.layer_id) = {"unlabeled"}

\* C16 witness: a visible and a hidden candidate of one image, both
\* unlabeled, both exported under 'unlabeled' by a 'none' export.
C16_Witness ==
    /\ CocoExportReturned
    /\ lastOp.filters.visibility_mode = "none"
    /\ lastOp.filters.class_labels = <<>>
    /\ \E l1, l2 \in Range(lastOp.candidates) :
         /\ Visible(l1) /\ ~Visible(l2)
         /\ ParseTags(l1) = <<>> /\ ParseTags(l2) = <<>>
         /\ l1.image_hash_ref = l2.image_hash_ref
         /\ CategoryNamesOf(l1.layer_id) = {"unlabeled"}
         /\ CategoryNamesOf(l2.layer_id) = {"unlabeled"}

\* C17: an export that gives no image-status, image-hash, layer-id,
\* layer-status or class-label allow-list and no visibility mode (or
\* 'none') emits every stored layer of the project.
C17_NoFilterNoRestriction ==
    ( /\ CocoExportDone
      /\ lastOp.filters.image_statuses = <<>>
      /\ lastOp.filters.image_hashes = <<>>
      /\ lastOp.filters.layer_ids = <<>>
      /\ lastOp.filters.layer_statuses = <<>>
      /\ lastOp.filters.class_labels = <<>>
      /\ lastOp.filters.visibility_mode \in {None, "none"} )
    => ( /\ lastOp.outcome = "returned"
         /\ Range(lastOp.sources) = { l.layer_id : l \in Mask_Layers } )

\* The hashes of the image records of the document.
DocImageHashes ==
    { m[1] : m \in { q \in lastOp.image_id_map :
        \E i \in DOMAIN lastOp.doc.images : lastOp.doc.images[i].id = q[2] } }

\* C18: the images of an exported document are exactly the images that a
\* surviving layer refers to, one record each, and every annotation's
\* image_id is the id of an image record of the document.
C18_ImagesOfSurvivors ==
    CocoExportReturned =>
        /\ DocImageHashes = { l.image_hash_ref : l \in Range(lastOp.survivors) }
        /\ Len(lastOp.doc.images) = Cardinality(DocImageHashes)
        /\ \A k \in DOMAIN lastOp.doc.annotations :
             \E i \in DOMAIN lastOp.doc.images :
               lastOp.doc.images[i].id = lastOp.doc.annotations[k].image_id

\* C18 witness: the image-hash allow-list named an image none of whose
\* layers survived; the document holds another image and not that one.
C18_Witness ==
    /\ CocoExportReturned
    /\ lastOp.doc.images # <<>>
    /\ lastOp.doc.annotations # <<>>
    /\ \E h \in Range(lastOp.filters.image_hashes) :
         /\ h \in HashesOf(Images)
         /\ h \notin DocImageHashes

\* The positions of the annotations made from a layer.
AnnotationsOf(layer_id) ==
    { k \in DOMAIN lastOp.sources : lastOp.sources[k] = layer_id }

\* C19: a surviving layer with N >= 1 labels yields N annotations, one per
\* label, a surviving layer without labels one annotation under
\* 'unlabeled'; a layer's annotations share its segmentation, bounding box
\* and area; annotation ids are 1..K in order.
C19_AnnotationsPerLabel ==
    CocoExportReturned =>
        /\ \A l \in Range(lastOp.survivors) :
             LET tags == ParseTags(l)
                 of_l == AnnotationsOf(l.layer_id)
             IN  /\ Cardinality(of_l) = IF tags = <<>> THEN 1 ELSE Len(tags)
                 /\ CategoryNamesOf(l.layer_id)
                      = IF tags = <<>> THEN {"unlabeled"} ELSE Range(tags)
                 /\ \A k1, k2 \in of_l :
                      /\ lastOp.doc.annotations[k1].segmentation
                           = lastOp.doc.annotations[k2].segmentation
                      /\ lastOp.doc.annotations[k1].bbox = lastOp.doc.annotations[k2].bbox
                      /\ lastOp.doc.annotations[k1].area = lastOp.doc.annotations[k2].area
                 /\ \A k \in of_l :
                      lastOp.doc.annotations[k].segmentation = l.mask_data_rle
        /\ \A k \in DOMAIN lastOp.doc.annotations : lastOp.doc.annotations[k].id = k
        /\ Len(lastOp.sources) = Len(lastOp.doc.annotations)

\* C19 witness: one export with a two-label layer that gave two
\* annotations and an unlabeled layer that gave one.
C19_Witness ==
    /\ CocoExportReturned
    /\ \E l1, l2 \in Range(lastOp.survivors) :
         /\ Len(ParseTags(l1)) = 2
         /\ Cardinality(AnnotationsOf(l1.layer_id)) = 2
         /\ Cardinality(CategoryNamesOf(l1.layer_id)) = 2
         /\ ParseTags(l2) = <<>>
         /\ Cardinality(AnnotationsOf(l2.layer_id)) = 1

\* The rank of a label in Python's string order.
LabelRank(name) == CHOOSE i \in DOMAIN LabelOrder : LabelOrder[i] = name

\* C20: the categories of a document with images are the distinct labels
\* of the surviving layers in lexicographic order, numbered from 1, and
\* 'unlabeled' comes last exactly when a surviving layer has no label.
C20_CategoryIds ==
    ( CocoExportReturned /\ lastOp.doc.images # <<>> )
    => LET cats == lastOp.doc.categories
           labels == UNION { Range(ParseTags(l)) : l \in Range(lastOp.survivors) }
           lacking == \E l \in Range(lastOp.survivors) : ParseTags(l) = <<>>
           n == Cardinality(labels)
       IN  /\ Len(cats) = n + (IF lacking THEN 1 ELSE 0)
           /\ \A i \in DOMAIN cats : cats[i].id = i
           /\ { cats[i].name : i \in 1..n } = labels
           /\ \A i, j \in 1..n :
                i < j => LabelRank(cats[i].name) < LabelRank(cats[j].name)
           /\ lacking => cats[Len(cats)].name = "unlabeled"

\* C24: a commit that carries a mask for a pooled image returns to its
\* caller even when a save fails: the ids it lists are stored layers, and an
\* image left with a layer is not 'unprocessed'.
C24_PartialCommitReported ==
    ( /\ lastOp.op = "commit_final_masks"
      /\ lastOp.has_mask
      /\ lastOp.image_hash \in HashesOf(Images) )
    => ( /\ lastOp.outcome = "returned"
         /\ \A i \in DOMAIN lastOp.final_layer_ids :
              LayerRowsOf(Mask_Layers, lastOp.final_layer_ids[i]) # {}
         /\ count_mask_layers_for_image(Mask_Layers, lastOp.image_hash) >= 1
              => StatusOf(Images, lastOp.image_hash) # "unprocessed" )

\* The request the step handles names an image hash no pooled image has
\* (status write) or a layer id no stored layer has (layer delete).
UnknownTarget ==
    \/ /\ lastOp'.op = "update_image_status"
       /\ lastOp'.image_hash \notin HashesOf(Images)
    \/ /\ lastOp'.op = "delete_mask_layer_and_update_status"
       /\ LayerRowsOf(Mask_Layers, lastOp'.layer_id) = {}

\* C25: a status write for an unknown image hash and a delete of an
\* unknown layer id do not report success and change no stored record.
C25_UnknownTargetNotFound ==
    [][ UnknownTarget =>
          /\ (~lastOp'.success \/ lastOp'.outcome = "raised")
          /\ UNCHANGED <<Images, Image_Sources, Mask_Layers, stored_files,
                         Project_Info>> ]_vars

\* The statuses only an explicit write sets.
ReviewStatuses == {"ready_for_review", "approved", "rejected"}

\* The step is a layer add, a layer removal or a recomputation without an
\* explicit status write.
AutomaticStep ==
    \/ lastOp'.op \in LayerOps
    \/ lastOp'.op = "update_image_state" /\ lastOp'.written = None

\* C28: an automatic step changes an image's status only to 'unprocessed'
\* or 'in_progress', and an image in 'ready_for_review', 'approved' or
\* 'rejected' that still has a layer afterwards keeps its status.
C28_NoAutomaticReviewStatus ==
    [][ AutomaticStep =>
          \A h \in HashesOf(Images) :
            /\ StatusOf(Images', h) # StatusOf(Images, h)
                 => StatusOf(Images', h) \in {"unprocessed", "in_progress"}
            /\ ( /\ StatusOf(Images, h) \in ReviewStatuses
                 /\ count_mask_layers_for_image(Mask_Layers', h) >= 1 )
                 => StatusOf(Images', h) = StatusOf(Images, h) ]_vars

\* C28 witness: one of the two layers of an 'approved' image was deleted,
\* the recomputation ran, and the image is still 'approved' with a layer.
C28_Witness ==
    /\ lastOp.op = "delete_mask_layer_and_update_status"
    /\ lastOp.owner = lastOp.image_hash
    /\ lastOp.pre_status = "approved"
    /\ lastOp.pre_layer_count = 2
    /\ lastOp.image_status = "approved"
    /\ StatusOf(Images, lastOp.image_hash) = "approved"
    /\ count_mask_layers_for_image(Mask_Layers, lastOp.image_hash) = 1

\* C21: for every project state and filter set, calculate_export_stats
\* reports as num_layers the number of layers prepare_export_data lets
\* survive and as num_images the number of image records of its document.
C21_StatsMatchExport ==
    lastOp.op = "calculate_export_stats" =>
        LET exported == prepare_export_data(Images, Mask_Layers, lastOp.filters,
                            "coco_rle_json", "coco_instance_segmentation")
        IN  /\ lastOp.outcome = "returned"
            /\ exported.outcome = "returned"
            /\ lastOp.num_layers = Len(exported.survivors)
            /\ lastOp.num_images = Len(exported.doc.images)

\* The step handles an export request or an export statistics request.
ExportStep == lastOp'.op \in {"prepare_export_data", "calculate_export_stats"}

\* C26: an export or statistics request, whatever its filters and format,
\* leaves every image row, every mask layer, the sources, the stored files
\* and the project's last-modified timestamp unchanged.
C26_ExportReadOnly ==
    [][ ExportStep =>
          UNCHANGED <<Images, Image_Sources, Mask_Layers, stored_files,
                      Project_Info>> ]_vars

\* C26 witness: statistics were returned for a project with layers, and
\* the project's timestamp is still the one the database was loaded with.
C26_Witness ==
    /\ lastOp.op = "calculate_export_stats"
    /\ lastOp.outcome = "returned"
    /\ lastOp.num_layers > 0
    /\ Project_Info[ActiveProject].last_modified_at_content < clock

\* C22: delete_image_from_pool leaves no layer row that references the
\* deleted hash and leaves the layers of the other images as they were, and
\* a layer lookup for a hash that is not in the pool returns an empty list.
C22_DeleteImageCascades ==
    [][ /\ lastOp'.op = "delete_image_from_pool" =>
            /\ \A l \in Mask_Layers' : l.image_hash_ref # lastOp'.image_hash
            /\ get_mask_layers_for_image(Mask_Layers', lastOp'.image_hash) = <<>>
            /\ \A l \in Mask_Layers :
                 l.image_hash_ref # lastOp'.image_hash => l \in Mask_Layers'
            /\ Mask_Layers' \subseteq Mask_Layers
        /\ ( /\ lastOp'.op = "get_mask_layers_for_image"
             /\ lastOp'.image_hash \notin HashesOf(Images) ) =>
            /\ lastOp'.outcome = "returned"
            /\ lastOp'.masks = <<>>
      ]_vars

\* An image that had a layer was deleted, the lookup for it came back
\* empty, and the layer of the other image is still stored.
C22_Witness ==
    /\ lastOp.op = "get_mask_layers_for_image"
    /\ lastOp.prev_op = "delete_image_from_pool"
    /\ lastOp.image_hash = calculate_file_hash("B1")
    /\ lastOp.image_hash \notin HashesOf(Images)
    /\ lastOp.masks = <<>>
    /\ \E l \in Mask_Layers : l.layer_id = "L2"

\* The columns an attribute update may write.
SameButAttributes(l, l2) ==
    l2 = [ l EXCEPT !.name = l2.name, !.class_label = l2.class_label,
                    !.display_color = l2.display_color, !.status = l2.status ]

C27_SyncIdempotent ==
    ( lastOp.op = "sync_image_status_with_layers" /\ lastOp.repeated ) =>
        /\ lastOp.status = lastOp.prev_status
        /\ ~lastOp.wrote

\* The first of the two calls wrote a status, the second did not.
C27_Witness ==
    /\ lastOp.op = "sync_image_status_with_layers"
    /\ lastOp.repeated
    /\ lastOp.prev_wrote
    /\ ~lastOp.wrote
    /\ lastOp.status = "unprocessed"

\* The greatest last_modified among the listed projects.
MostRecent(listing) ==
    \A i \in DOMAIN listing : listing[1].last_modified >= listing[i].last_modified

\* C29: a save, delete or update call of the layer store that changes a
\* layer record sets last_modified_at_content of the project to the time
\* of the call, later than the value before; no store call decreases the
\* value of any project; and list_existing_projects puts the project that
\* was modified last first.
C29_LastModifiedAdvances ==
    [][ /\ ( /\ lastOp'.op \in {"save_mask_layer", "delete_mask_layer",
                                  "update_mask_layer_basic",
                                  "update_mask_layer_status"}
             /\ Mask_Layers' # Mask_Layers ) =>
            /\ Project_Info'[ActiveProject].last_modified_at_content = clock'
            /\ Project_Info'[ActiveProject].last_modified_at_content
                 > Project_Info[ActiveProject].last_modified_at_content
        /\ \A pid \in DOMAIN Project_Info :
             /\ pid \in DOMAIN Project_Info'
             /\ Project_Info'[pid].last_modified_at_content
                  >= Project_Info[pid].last_modified_at_content
        /\ lastOp'.op = "list_existing_projects" =>
            /\ MostRecent(lastOp'.listing)
            /\ { lastOp'.listing[i].id : i \in DOMAIN lastOp'.listing }
                 = list_project_ids(Project_Info)
      ]_vars

\* The other project was the more recent one when the database was loaded;
\* a layer update then made this project the first of the listing.
C29_Witness ==
    /\ lastOp.op = "list_existing_projects"
    /\ lastOp.prev_op = "update_mask_layer_status"
    /\ Len(lastOp.listing) = 2
    /\ lastOp.listing[1].id = ActiveProject
    /\ lastOp.listing[1].last_modified > lastOp.listing[2].last_modified
    /\ lastOp.listing[2].last_modified = 1

\* C30: once a 'skip' write for the image has committed, no step of a
\* sync_image_status_with_layers running at the same time changes the
\* status of the image.
C30_SkipNeverOverwritten ==
    [][ ( lastOp'.op = "sync_write" /\ StatusOf(Images, RaceHash) = "skip" )
          => StatusOf(Images', RaceHash) = "skip" ]_vars

\* What the skip guard does give: a sync_image_status_with_layers whose
\* status read finds the committed 'skip' returns 'skip' and writes nothing,
\* and a committed 'skip' changes only by the write of a sync that read the
\* status before the 'skip' write committed.
SkipKeptWhenReadSeesSkip ==
    [][ /\ \A t \in DOMAIN threads :
             threads'[t].current = "skip" =>
               /\ threads'[t].pc = "done"
               /\ threads'[t].result = "skip"
               /\ lastOp'.thread = t => Images' = Images
        /\ ( StatusOf(Images, RaceHash) = "skip"
             /\ StatusOf(Images', RaceHash) # "skip" ) =>
            /\ lastOp'.op = "sync_write"
            /\ ~threads[lastOp'.thread].skip_at_read
      ]_vars

\* The 'skip' write committed while a deletion was between its DELETE and
\* its status read; the deletion then read 'skip' and left it, although the
\* image has no layer left.
SkipReadAfterCommit ==
    /\ threads # NoThreads
    /\ \E t \in threads["skip"].concurrent :
         /\ threads[t].request = "delete"
         /\ threads[t].skip_at_read
         /\ threads[t].current = "skip"
         /\ threads[t].pc = "done"
         /\ threads[t].result = "skip"
    /\ StatusOf(Images, RaceHash) = "skip"
    /\ count_mask_layers_for_image(Mask_Layers, RaceHash) = 0


====
